---- MODULE Spec2Model ----
(***************************************************************************)
(* Adaptive item-selection scheduler of the UKE flashcards application:    *)
(* confidence classification, phase detection, cooling, the coverage       *)
(* cursor, the weighted selector (three next-item routes) and the session  *)
(* assembler, over the append-only attempts table.                         *)
(***************************************************************************)
EXTENDS Integers, Sequences, FiniteSets, TLC

VARIABLES
    questionsCache, \* the question bank loaded from data/questions.json
    log,        \* the attempts table, in insertion (rowid) order
    sessions,   \* the sessions table: number of rows inserted so far
    call,       \* the last call made and what it returned
    run         \* the current run of next-item calls that repeat one request
                \* and carry its cursor forward: cursor sent, item returned

vars == <<questionsCache, log, sessions, call, run>>

--------------------------------------------------------------------------
(* Bounds of the model *)

\* largest totalAttempts handed to the classifier on its own
MaxAttempts == 7
\* largest number of rows of the attempts table
MaxLog == 3
\* largest number of rows of the sessions table
MaxSessions == 1
\* longest run of repeated next-item calls that is followed (a run is
\* followed for one pass over its pool)
MaxRun == 3

--------------------------------------------------------------------------
(* Sequence helpers *)

Range(s) == {s[i] : i \in 1..Len(s)}

\* ids of a list of catalog entries: xs.map((x) => x.id)
Ids(xs) == [i \in 1..Len(xs) |-> xs[i].id]

\* xs.filter((id) => !set.has(id))
NotIn(xs, set) == SelectSeq(xs, LAMBDA id : id \notin set)

NoDuplicates(s) == \A i, j \in 1..Len(s) : s[i] = s[j] => i = j

--------------------------------------------------------------------------
(* Confidence classifier: src/lib/questionStats.ts *)

LastValues == {"true", "false", "null"}

\* accuracy = (correctAttempts / totalAttempts) * 100 is compared with 100,
\* 50 and 80; on integers these comparisons are exact cross-multiplications
\* (the double-precision result agrees for every total below 200).
AccuracyIs100(totalAttempts, correctAttempts) == correctAttempts = totalAttempts
AccuracyBelow50(totalAttempts, correctAttempts) == 2 * correctAttempts < totalAttempts
AccuracyAbove80(totalAttempts, correctAttempts) == 5 * correctAttempts > 4 * totalAttempts

\* mastered on the last answer and a majority: earlier failures are forgiven
computeConfidenceLevel_Forgiving(totalAttempts, correctAttempts, lastWasCorrect) ==
    IF totalAttempts = 0 THEN "unseen"
    ELSE IF /\ lastWasCorrect = "true" /\ totalAttempts >= 3
            /\ ~AccuracyBelow50(totalAttempts, correctAttempts)
            /\ ~(2 * correctAttempts = totalAttempts)
         THEN "mastered"
    ELSE IF lastWasCorrect = "false" \/ AccuracyBelow50(totalAttempts, correctAttempts)
         THEN "weak"
    ELSE IF AccuracyAbove80(totalAttempts, correctAttempts) /\ totalAttempts >= 2
         THEN "strong"
    ELSE "learning"

\* the cascade with the strong threshold at 80% and above
computeConfidenceLevel_AtLeast80(totalAttempts, correctAttempts, lastWasCorrect) ==
    IF totalAttempts = 0 THEN "unseen"
    ELSE IF AccuracyIs100(totalAttempts, correctAttempts) /\ totalAttempts >= 3
         THEN "mastered"
    ELSE IF lastWasCorrect = "false" \/ AccuracyBelow50(totalAttempts, correctAttempts)
         THEN "weak"
    ELSE IF 5 * correctAttempts >= 4 * totalAttempts /\ totalAttempts >= 2
         THEN "strong"
    ELSE "learning"

computeConfidenceLevel(totalAttempts, correctAttempts, lastWasCorrect) ==
    IF totalAttempts = 0 THEN "unseen"
    ELSE IF AccuracyIs100(totalAttempts, correctAttempts) /\ totalAttempts >= 3
         THEN "mastered"
    ELSE IF lastWasCorrect = "false" \/ AccuracyBelow50(totalAttempts, correctAttempts)
         THEN "weak"
    ELSE IF AccuracyAbove80(totalAttempts, correctAttempts) /\ totalAttempts >= 2
         THEN "strong"
    ELSE "learning"

--------------------------------------------------------------------------
(* The static catalogs (data/*.json behind the lib/ loaders): a question  *)
(* bank that is read once and cached, two Q codes, and two alphabets of    *)
(* two and three letters.                                                  *)

\* the bank of the study model: two exam questions in two sections
StudyBank ==
    << [id |-> "Q1", section |-> "S1", correctAnswerLetter |-> "A"],
       [id |-> "Q2", section |-> "S2", correctAnswerLetter |-> "B"] >>

getQuestions == questionsCache

getQCodes == << [id |-> "QC-1"], [id |-> "QC-2"] >>

getAlphabet(type) ==
    IF type = "polish" THEN << [id |-> "AL-PL-A"], [id |-> "AL-PL-B"] >>
    ELSE << [id |-> "AL-NATO-A"], [id |-> "AL-NATO-B"], [id |-> "AL-NATO-C"] >>

\* questions.find((q) => q.id === id): the entry, or Null
Null == "null"

RECURSIVE FindFrom(_, _, _)
FindFrom(xs, id, i) ==
    IF i > Len(xs) THEN Null
    ELSE IF xs[i].id = id THEN xs[i].id
    ELSE FindFrom(xs, id, i + 1)

\* the model identifies a catalog entry with its id
Find(xs, id) == FindFrom(xs, id, 1)

getQuestionById(id) == Find(getQuestions, id)
getQCodeById(id) == Find(getQCodes, id)

\* questionId.startsWith('QC-'), over the ids the model submits
QCPrefixed == {"QC-1", "QC-2", "QC-9"}
StartsWithQC(id) == id \in QCPrefixed

CorrectAnswerLetter(id) ==
    (CHOOSE q \in Range(getQuestions) : q.id = id).correctAnswerLetter

--------------------------------------------------------------------------
(* Attempt statistics: getQuestionStats, src/lib/questionStats.ts.  A row   *)
(* of the attempts table is                                                *)
(*   [question_id, session_id, selected_answer, is_correct, created_at];   *)
(* created_at has a resolution of one second, so consecutive rows may      *)
(* carry the same value.                                                   *)

RowsOf(rows, qId) == {i \in 1..Len(rows) : rows[i].question_id = qId}

SeenIds(rows) == {rows[i].question_id : i \in 1..Len(rows)}

MaxCreatedAt(rows, qId) ==
    CHOOSE t \in {rows[i].created_at : i \in RowsOf(rows, qId)} :
        \A i \in RowsOf(rows, qId) : rows[i].created_at <= t

\* ORDER BY created_at DESC LIMIT 1: any of the item's rows with the
\* greatest created_at may be the one returned.
LastRowCandidates(rows, qId) ==
    {i \in RowsOf(rows, qId) : rows[i].created_at = MaxCreatedAt(rows, qId)}

\* one resolution of every such tie
TieBreaks(rows) ==
    {pick \in [SeenIds(rows) -> 1..Len(rows)] :
        \A qId \in SeenIds(rows) : pick[qId] \in LastRowCandidates(rows, qId)}

BoolStr(b) == IF b THEN "true" ELSE "false"

QuestionStatsOf(rows, qId, lastRow) ==
    LET totalAttempts == Cardinality(RowsOf(rows, qId))
        correctAttempts == Cardinality({i \in RowsOf(rows, qId) : rows[i].is_correct = 1})
        lastWasCorrect == BoolStr(rows[lastRow].is_correct = 1)
    IN  [ questionId |-> qId,
          totalAttempts |-> totalAttempts,
          correctAttempts |-> correctAttempts,
          lastAttemptAt |-> MaxCreatedAt(rows, qId),
          lastWasCorrect |-> lastWasCorrect,
          confidenceLevel |->
              computeConfidenceLevel(totalAttempts, correctAttempts, lastWasCorrect) ]

\* the statsMap: a function whose domain is the set of ids with a row
getQuestionStats(rows, pick) ==
    [qId \in SeenIds(rows) |-> QuestionStatsOf(rows, qId, pick[qId])]

StatsMaps(rows) == {getQuestionStats(rows, pick) : pick \in TieBreaks(rows)}

--------------------------------------------------------------------------
(* Phase detector and categories: src/lib/questionStats.ts *)

\* the phase with the unseen items counted against the whole statistics map
determinePhase_AllStats(questionIds, statsMap) ==
    LET unseenCount == Len(questionIds) - Cardinality(DOMAIN statsMap)
        masteredCount ==
            Cardinality({i \in 1..Len(questionIds) :
                /\ questionIds[i] \in DOMAIN statsMap
                /\ statsMap[questionIds[i]].confidenceLevel = "mastered"})
    IN  IF unseenCount > 0 THEN "coverage"
        ELSE IF masteredCount = Len(questionIds) THEN "mastered"
        ELSE "drilling"

determinePhase(questionIds, statsMap) ==
    LET unseenCount ==
            Cardinality({i \in 1..Len(questionIds) : questionIds[i] \notin DOMAIN statsMap})
        masteredCount ==
            Cardinality({i \in 1..Len(questionIds) :
                /\ questionIds[i] \in DOMAIN statsMap
                /\ statsMap[questionIds[i]].confidenceLevel = "mastered"})
    IN  IF unseenCount > 0 THEN "coverage"
        ELSE IF masteredCount = Len(questionIds) THEN "mastered"
        ELSE "drilling"

LevelOf(qId, statsMap) ==
    IF qId \in DOMAIN statsMap THEN statsMap[qId].confidenceLevel ELSE "unseen"

Levels == {"unseen", "weak", "learning", "strong", "mastered"}

\* Record<ConfidenceLevel, string[]>, each list in the order of questionIds
categorizeQuestions(questionIds, statsMap) ==
    [level \in Levels |->
        SelectSeq(questionIds, LAMBDA qId : LevelOf(qId, statsMap) = level)]

\* the summary counting as seen every item with a record, of any pool
getStatsSummary_SeenAnywhere(questionIds, statsMap) ==
    LET categories == categorizeQuestions(questionIds, statsMap)
        total == Len(questionIds)
        unseen == Len(categories["unseen"])
    IN  [ total |-> total,
          unseen |-> unseen,
          weak |-> Len(categories["weak"]),
          learning |-> Len(categories["learning"]),
          strong |-> Len(categories["strong"]),
          mastered |-> Len(categories["mastered"]),
          seenCount |-> Cardinality(DOMAIN statsMap) ]

getStatsSummary(questionIds, statsMap) ==
    LET categories == categorizeQuestions(questionIds, statsMap)
        total == Len(questionIds)
        unseen == Len(categories["unseen"])
    IN  [ total |-> total,
          unseen |-> unseen,
          weak |-> Len(categories["weak"]),
          learning |-> Len(categories["learning"]),
          strong |-> Len(categories["strong"]),
          mastered |-> Len(categories["mastered"]),
          seenCount |-> total - unseen ]

--------------------------------------------------------------------------
(* Cooling filter: the exclusion set of a next-item request.               *)
(* Times are milliseconds (Date.now()).                                    *)

\* src/app/api/questions/next/route.ts
COOLING_PERIOD_MS == 5 * 60 * 1000
COOLING_QUESTION_COUNT == 10
\* src/app/api/q-codes/next/route.ts
QCODE_COOLING_PERIOD_MS == 1 * 60 * 1000
QCODE_COOLING_QUESTION_COUNT == 3
\* src/app/api/alphabet/stats/route.ts (GET /api/alphabet/next)
LETTER_COOLING_PERIOD_MS == 1 * 60 * 1000
COOLING_LETTER_COUNT == 3

\* insert r into a list sorted by answeredAt descending, after its equals
\* (Array.prototype.sort is stable)
RECURSIVE InsertDesc(_, _)
InsertDesc(sorted, r) ==
    IF sorted = <<>> THEN <<r>>
    ELSE IF Head(sorted).answeredAt >= r.answeredAt
         THEN <<Head(sorted)>> \o InsertDesc(Tail(sorted), r)
    ELSE <<r>> \o sorted

RECURSIVE SortFrom(_, _, _)
SortFrom(recentAnswers, i, sorted) ==
    IF i > Len(recentAnswers) THEN sorted
    ELSE SortFrom(recentAnswers, i + 1, InsertDesc(sorted, recentAnswers[i]))

\* recentAnswers.sort((a, b) => b.answeredAt - a.answeredAt)
SortByAnsweredAtDesc(recentAnswers) == SortFrom(recentAnswers, 1, <<>>)

\* .slice(0, n)
Slice(xs, n) == SubSeq(xs, 1, IF Len(xs) < n THEN Len(xs) ELSE n)

TimeCooled(recentAnswers, now, period) ==
    {recentAnswers[i].questionId : i \in
        {k \in 1..Len(recentAnswers) : now - recentAnswers[k].answeredAt < period}}

CountCooled(recentAnswers, count) ==
    {r.questionId : r \in Range(Slice(SortByAnsweredAtDesc(recentAnswers), count))}

\* excludeIds after the two cooling loops; excludeParam is the set of ids
\* of the 'exclude' parameter
ExcludeIds(excludeParam, recentAnswers, now, period, count) ==
    excludeParam \cup TimeCooled(recentAnswers, now, period)
                 \cup CountCooled(recentAnswers, count)

--------------------------------------------------------------------------
(* Coverage sequencer *)

Swap(arr, i, j) == [arr EXCEPT ![i] = arr[j], ![j] = arr[i]]

\* the draws of one Fisher-Yates pass over n elements: for the loop index
\* i = n-1 .. 1, j = Math.floor(Math.random() * (i + 1)) is any of 0..i
ShuffleDraws(n) == {js \in [1..(n - 1) -> 0..(n - 1)] : \A i \in 1..(n - 1) : js[i] <= i}

RECURSIVE ShuffleFrom(_, _, _)
ShuffleFrom(arr, i, js) ==
    IF i <= 0 THEN arr ELSE ShuffleFrom(Swap(arr, i + 1, js[i] + 1), i - 1, js)

FisherYates(arr, js) == ShuffleFrom(arr, Len(arr) - 1, js)

ShuffleOutcomes(arr) == {FisherYates(arr, js) : js \in ShuffleDraws(Len(arr))}

\* the while loop over shuffledOrder from currentIndex (0-based): the first
\* id that is not excluded and is found in the pool, with the index after it
RECURSIVE CoverageScan_Stay(_, _, _, _)
CoverageScan_Stay(shuffledOrder, currentIndex, excludeIds, items) ==
    IF currentIndex >= Len(shuffledOrder)
    THEN [selected |-> Null, newCurrentIndex |-> -1]
    ELSE LET qId == shuffledOrder[currentIndex + 1]
         IN  IF qId \notin excludeIds /\ Find(items, qId) # Null
             THEN [selected |-> Find(items, qId), newCurrentIndex |-> currentIndex]
             ELSE CoverageScan_Stay(shuffledOrder, currentIndex + 1, excludeIds, items)

\* the scan trusting the order: the id is not looked up in the pool
RECURSIVE CoverageScan_Trusting(_, _, _, _)
CoverageScan_Trusting(shuffledOrder, currentIndex, excludeIds, items) ==
    IF currentIndex >= Len(shuffledOrder)
    THEN [selected |-> Null, newCurrentIndex |-> -1]
    ELSE LET qId == shuffledOrder[currentIndex + 1]
         IN  IF qId \notin excludeIds
             THEN [selected |-> qId, newCurrentIndex |-> currentIndex + 1]
             ELSE CoverageScan_Trusting(shuffledOrder, currentIndex + 1, excludeIds, items)

\* the scan without the test of the exclusion set
RECURSIVE CoverageScan_NoSkip(_, _, _, _)
CoverageScan_NoSkip(shuffledOrder, currentIndex, excludeIds, items) ==
    IF currentIndex >= Len(shuffledOrder)
    THEN [selected |-> Null, newCurrentIndex |-> -1]
    ELSE LET qId == shuffledOrder[currentIndex + 1]
         IN  IF Find(items, qId) # Null
             THEN [selected |-> Find(items, qId), newCurrentIndex |-> currentIndex + 1]
             ELSE CoverageScan_NoSkip(shuffledOrder, currentIndex + 1, excludeIds, items)

RECURSIVE CoverageScan(_, _, _, _)
CoverageScan(shuffledOrder, currentIndex, excludeIds, items) ==
    IF currentIndex >= Len(shuffledOrder)
    THEN [selected |-> Null, newCurrentIndex |-> -1]
    ELSE LET qId == shuffledOrder[currentIndex + 1]
         IN  IF qId \notin excludeIds /\ Find(items, qId) # Null
             THEN [selected |-> Find(items, qId), newCurrentIndex |-> currentIndex + 1]
             ELSE CoverageScan(shuffledOrder, currentIndex + 1, excludeIds, items)

--------------------------------------------------------------------------
(* Weighted selector *)

SELECTION_WEIGHTS == [weak |-> 70, learning |-> 25, strong |-> 5]

\* weak.sort by lastAttemptAt, most recent first (stable)
RECURSIVE InsertByLastAttempt(_, _, _)
InsertByLastAttempt(sorted, id, statsMap) ==
    IF sorted = <<>> THEN <<id>>
    ELSE IF statsMap[Head(sorted)].lastAttemptAt >= statsMap[id].lastAttemptAt
         THEN <<Head(sorted)>> \o InsertByLastAttempt(Tail(sorted), id, statsMap)
    ELSE <<id>> \o sorted

RECURSIVE SortWeakFrom(_, _, _, _)
SortWeakFrom(weak, i, sorted, statsMap) ==
    IF i > Len(weak) THEN sorted
    ELSE SortWeakFrom(weak, i + 1, InsertByLastAttempt(sorted, weak[i], statsMap), statsMap)

SortWeakByRecency(weak, statsMap) == SortWeakFrom(weak, 1, <<>>, statsMap)

WithWeight(idList, weight) == [i \in 1..Len(idList) |-> [id |-> idList[i], weight |-> weight]]

\* the weighted pool with the mastered items kept, at the weight of strong
WeightedPoolQuestions_WithMastered(ids, statsMap, excludeIds) ==
    LET categories == categorizeQuestions(ids, statsMap)
        weak == SortWeakByRecency(NotIn(categories["weak"], excludeIds), statsMap)
        learning == NotIn(categories["learning"], excludeIds)
        strong == NotIn(categories["strong"] \o categories["mastered"], excludeIds)
    IN  WithWeight(weak, SELECTION_WEIGHTS.weak)
            \o WithWeight(learning, SELECTION_WEIGHTS.learning)
            \o WithWeight(strong, SELECTION_WEIGHTS.strong)

\* the weighted pool of selectWeightedQuestion (its weak list is sorted)
WeightedPoolQuestions(ids, statsMap, excludeIds) ==
    LET categories == categorizeQuestions(ids, statsMap)
        weak == SortWeakByRecency(NotIn(categories["weak"], excludeIds), statsMap)
        learning == NotIn(categories["learning"], excludeIds)
        strong == NotIn(categories["strong"], excludeIds)
    IN  WithWeight(weak, SELECTION_WEIGHTS.weak)
            \o WithWeight(learning, SELECTION_WEIGHTS.learning)
            \o WithWeight(strong, SELECTION_WEIGHTS.strong)

\* the weighted pool with the unseen items kept, at the weight of strong
WeightedPool_WithUnseen(ids, statsMap, excludeIds) ==
    LET categories == categorizeQuestions(ids, statsMap)
        weak == NotIn(categories["weak"], excludeIds)
        learning == NotIn(categories["learning"], excludeIds)
        strong == NotIn(categories["strong"] \o categories["unseen"], excludeIds)
    IN  WithWeight(weak, SELECTION_WEIGHTS.weak)
            \o WithWeight(learning, SELECTION_WEIGHTS.learning)
            \o WithWeight(strong, SELECTION_WEIGHTS.strong)

\* the weighted pool of selectWeightedQCode and selectWeightedLetter
WeightedPool(ids, statsMap, excludeIds) ==
    LET categories == categorizeQuestions(ids, statsMap)
        weak == NotIn(categories["weak"], excludeIds)
        learning == NotIn(categories["learning"], excludeIds)
        strong == NotIn(categories["strong"], excludeIds)
    IN  WithWeight(weak, SELECTION_WEIGHTS.weak)
            \o WithWeight(learning, SELECTION_WEIGHTS.learning)
            \o WithWeight(strong, SELECTION_WEIGHTS.strong)

RECURSIVE SumWeights(_)
SumWeights(pool) == IF pool = <<>> THEN 0 ELSE Head(pool).weight + SumWeights(Tail(pool))

\* random = Math.random() * totalWeight lies in [0, totalWeight).  Every
\* weight is a multiple of 5, so the model draws one point inside each
\* interval of width 5 of that range.
RandomDraws(totalWeight) == {5 * u + 2 : u \in 0..((totalWeight \div 5) - 1)}

\* the draw compared with each weight on its own, nothing subtracted
RECURSIVE DrawFrom_NoCarry(_, _, _)
DrawFrom_NoCarry(pool, i, random) ==
    IF i > Len(pool) THEN pool[1].id
    ELSE IF random - pool[i].weight <= 0 THEN pool[i].id
    ELSE DrawFrom_NoCarry(pool, i + 1, random)

\* for (const item of pool) { random -= item.weight; if (random <= 0) return item }
\* and the fallback to pool[0] after the loop
RECURSIVE DrawFrom(_, _, _)
DrawFrom(pool, i, random) ==
    IF i > Len(pool) THEN pool[1].id
    ELSE IF random - pool[i].weight <= 0 THEN pool[i].id
    ELSE DrawFrom(pool, i + 1, random - pool[i].weight)

\* every item the weighted selection can return: {Null} for an empty pool
WeightedOutcomes(pool, items) ==
    IF Len(pool) = 0 THEN {Null}
    ELSE {Find(items, DrawFrom(pool, 1, random)) : random \in RandomDraws(SumWeights(pool))}

selectWeightedQuestion(questions, statsMap, excludeIds) ==
    WeightedOutcomes(WeightedPoolQuestions(Ids(questions), statsMap, excludeIds), questions)

selectWeightedQCode(qCodes, statsMap, excludeIds) ==
    WeightedOutcomes(WeightedPool(Ids(qCodes), statsMap, excludeIds), qCodes)

selectWeightedLetter(letters, statsMap, excludeIds) ==
    WeightedOutcomes(WeightedPool(Ids(letters), statsMap, excludeIds), letters)

--------------------------------------------------------------------------
(* The next-item routes.  Each operator yields the set of responses the    *)
(* handler can produce for one request, over the outcomes of its random    *)
(* draws and of the created_at ties of the attempts table.                 *)
(* A response is [status, item, phase, stats, shuffledOrder, currentIndex];*)
(* shuffledOrder = <<>> and currentIndex = -1 stand for an absent field.   *)

NoStats == [total |-> 0, unseen |-> 0, weak |-> 0, learning |-> 0,
            strong |-> 0, mastered |-> 0, seenCount |-> 0]

ErrorResponse(status) ==
    [status |-> status, item |-> Null, phase |-> Null, stats |-> NoStats,
     shuffledOrder |-> <<>>, currentIndex |-> -1]

NothingSelected == [selected |-> Null, newShuffledOrder |-> <<>>, newCurrentIndex |-> -1]

\* shuffledOrderParam ? the supplied cursor : a fresh shuffle of the unseen ids
\* a fresh shuffle on every request, whatever cursor is supplied
Cursors_Fresh(unseen, shuffledOrderParam, currentIndexParam) ==
    {[shuffledOrder |-> o, currentIndex |-> 0] : o \in ShuffleOutcomes(unseen)}

Cursors(unseen, shuffledOrderParam, currentIndexParam) ==
    IF shuffledOrderParam # <<>>
    THEN {[shuffledOrder |-> shuffledOrderParam, currentIndex |-> currentIndexParam]}
    ELSE {[shuffledOrder |-> o, currentIndex |-> 0] : o \in ShuffleOutcomes(unseen)}

\* unseenNotExcluded[Math.floor(Math.random() * length)], looked up in the pool
RandomOf(idList, items) ==
    {[selected |-> Find(items, idList[k]), newShuffledOrder |-> <<>>, newCurrentIndex |-> -1] :
        k \in 1..Len(idList)}

\* an exhausted order leaves the selection to the weighted selector
QuestionsExhausted_None(availableQuestions, statsMap, excludeIds) == {NothingSelected}

\* questions route, 'if (!selectedQuestion)' after the scan
QuestionsExhausted(availableQuestions, statsMap, excludeIds) ==
    LET questionIds == Ids(availableQuestions)
        updatedPhase == determinePhase(questionIds, statsMap)
        categories == categorizeQuestions(questionIds, statsMap)
        unseenNotExcluded == NotIn(categories["unseen"], excludeIds)
    IN  IF /\ updatedPhase = "coverage"
           /\ Len(categories["unseen"]) > 0
           /\ Len(unseenNotExcluded) > 0
        THEN RandomOf(unseenNotExcluded, availableQuestions)
        ELSE {NothingSelected}

\* the coverage branch with a new order shuffled from the whole pool
QuestionsCoverage_WholePool(availableQuestions, statsMap, excludeIds, shuffledOrderParam, currentIndexParam) ==
    UNION {
      LET scan == CoverageScan(c.shuffledOrder, c.currentIndex, excludeIds,
                               availableQuestions)
      IN  IF scan.selected # Null
          THEN {[selected |-> scan.selected,
                 newShuffledOrder |-> c.shuffledOrder,
                 newCurrentIndex |-> scan.newCurrentIndex]}
          ELSE QuestionsExhausted(availableQuestions, statsMap, excludeIds)
      : c \in Cursors(Ids(availableQuestions), shuffledOrderParam, currentIndexParam)}

\* questions route, 'if (phase === "coverage")'
QuestionsCoverage(availableQuestions, statsMap, excludeIds, shuffledOrderParam, currentIndexParam) ==
    LET categories == categorizeQuestions(Ids(availableQuestions), statsMap)
    IN  UNION {
          LET scan == CoverageScan(c.shuffledOrder, c.currentIndex, excludeIds,
                                   availableQuestions)
          IN  IF scan.selected # Null
              THEN {[selected |-> scan.selected,
                     newShuffledOrder |-> c.shuffledOrder,
                     newCurrentIndex |-> scan.newCurrentIndex]}
              ELSE QuestionsExhausted(availableQuestions, statsMap, excludeIds)
          : c \in Cursors(categories["unseen"], shuffledOrderParam, currentIndexParam)}

\* questions route, from the phase computation to the response
QuestionsSelect(availableQuestions, statsMap, excludeIds, forcePhase, shuffledOrderParam, currentIndexParam) ==
    LET questionIds == Ids(availableQuestions)
        computedPhase == determinePhase(questionIds, statsMap)
        phase == IF forcePhase # Null THEN forcePhase ELSE computedPhase
        summary == getStatsSummary(questionIds, statsMap)
        afterCoverage ==
            IF phase = "coverage"
            THEN QuestionsCoverage(availableQuestions, statsMap, excludeIds,
                                   shuffledOrderParam, currentIndexParam)
            ELSE {NothingSelected}
        afterDrilling ==
            UNION { IF phase = "drilling" \/ (phase = "coverage" /\ c.selected = Null)
                    THEN {[c EXCEPT !.selected = w] :
                            w \in selectWeightedQuestion(availableQuestions, statsMap, excludeIds)}
                    ELSE {c}
                  : c \in afterCoverage }
    IN  { IF phase = "mastered" \/ c.selected = Null
          THEN [status |-> 200, item |-> Null, phase |-> "mastered", stats |-> summary,
                shuffledOrder |-> <<>>, currentIndex |-> -1]
          ELSE [status |-> 200, item |-> c.selected, phase |-> phase, stats |-> summary,
                shuffledOrder |-> c.newShuffledOrder, currentIndex |-> c.newCurrentIndex]
        : c \in afterDrilling }

\* GET /api/questions/next
QuestionsNext(section, excludeParam, recentAnswers, forcePhase, shuffledOrderParam, currentIndexParam, rows, now) ==
    LET availableQuestions ==
            IF section # Null
            THEN SelectSeq(getQuestions, LAMBDA q : q.section = section)
            ELSE getQuestions
        excludeIds == ExcludeIds(excludeParam, recentAnswers, now,
                                 COOLING_PERIOD_MS, COOLING_QUESTION_COUNT)
    IN  IF Len(availableQuestions) = 0 THEN {ErrorResponse(400)}
        ELSE UNION { QuestionsSelect(availableQuestions, statsMap, excludeIds, forcePhase,
                                     shuffledOrderParam, currentIndexParam)
                   : statsMap \in StatsMaps(rows) }

\* Q-code and alphabet routes, 'if (!selected)' after the scan: an unseen
\* item outside the exclusion set, or any unseen item when all are excluded
SmallPoolExhausted(items, statsMap, excludeIds) ==
    LET categories == categorizeQuestions(Ids(items), statsMap)
        unseenNotExcluded == NotIn(categories["unseen"], excludeIds)
    IN  IF Len(categories["unseen"]) > 0
        THEN IF Len(unseenNotExcluded) > 0
             THEN RandomOf(unseenNotExcluded, items)
             ELSE RandomOf(categories["unseen"], items)
        ELSE {NothingSelected}

\* Q-code and alphabet routes, 'if (phase === "coverage")'
SmallPoolCoverage(items, statsMap, excludeIds, shuffledOrderParam, currentIndexParam) ==
    LET categories == categorizeQuestions(Ids(items), statsMap)
    IN  UNION {
          LET scan == CoverageScan(c.shuffledOrder, c.currentIndex, excludeIds, items)
          IN  IF scan.selected # Null
              THEN {[selected |-> scan.selected,
                     newShuffledOrder |-> c.shuffledOrder,
                     newCurrentIndex |-> scan.newCurrentIndex]}
              ELSE SmallPoolExhausted(items, statsMap, excludeIds)
          : c \in Cursors(categories["unseen"], shuffledOrderParam, currentIndexParam)}

\* the weighted selection without the cooling set from the start
WeightedIgnoringCooling_Always(items, statsMap, excludeIds) ==
    selectWeightedQCode(items, statsMap, {})

\* selectWeighted(items, statsMap, excludeIds), then, when it returned
\* null, selectWeighted(items, statsMap, new Set())
WeightedIgnoringCoolingIfEmpty(items, statsMap, excludeIds) ==
    UNION { IF w # Null THEN {w} ELSE selectWeightedQCode(items, statsMap, {})
          : w \in selectWeightedQCode(items, statsMap, excludeIds) }

\* Q-code and alphabet routes, from the phase computation to the response
SmallPoolSelect(items, statsMap, excludeIds, shuffledOrderParam, currentIndexParam) ==
    LET ids == Ids(items)
        phase == determinePhase(ids, statsMap)
        summary == getStatsSummary(ids, statsMap)
        mastered == [status |-> 200, item |-> Null, phase |-> "mastered", stats |-> summary,
                     shuffledOrder |-> <<>>, currentIndex |-> -1]
        afterCoverage ==
            IF phase = "coverage"
            THEN SmallPoolCoverage(items, statsMap, excludeIds,
                                   shuffledOrderParam, currentIndexParam)
            ELSE {NothingSelected}
        afterDrilling ==
            UNION { IF phase = "drilling" \/ (phase = "coverage" /\ c.selected = Null)
                    THEN {[c EXCEPT !.selected = w] :
                            w \in WeightedIgnoringCoolingIfEmpty(items, statsMap, excludeIds)}
                    ELSE {c}
                  : c \in afterCoverage }
    IN  IF phase = "mastered" THEN {mastered}
        ELSE { IF c.selected = Null THEN mastered
               ELSE [status |-> 200, item |-> c.selected, phase |-> phase, stats |-> summary,
                     shuffledOrder |-> c.newShuffledOrder,
                     currentIndex |-> c.newCurrentIndex]
             : c \in afterDrilling }

\* GET /api/q-codes/next
QCodesNext(excludeParam, recentAnswers, shuffledOrderParam, currentIndexParam, rows, now) ==
    LET excludeIds == ExcludeIds(excludeParam, recentAnswers, now,
                                 QCODE_COOLING_PERIOD_MS, QCODE_COOLING_QUESTION_COUNT)
    IN  UNION { SmallPoolSelect(getQCodes, statsMap, excludeIds,
                                shuffledOrderParam, currentIndexParam)
              : statsMap \in StatsMaps(rows) }

\* GET /api/alphabet/next
AlphabetNext(typeParam, excludeParam, recentAnswers, shuffledOrderParam, currentIndexParam, rows, now) ==
    LET excludeIds == ExcludeIds(excludeParam, recentAnswers, now,
                                 LETTER_COOLING_PERIOD_MS, COOLING_LETTER_COUNT)
    IN  IF typeParam \notin {"polish", "nato"} THEN {ErrorResponse(400)}
        ELSE UNION { SmallPoolSelect(getAlphabet(typeParam), statsMap, excludeIds,
                                     shuffledOrderParam, currentIndexParam)
                   : statsMap \in StatsMaps(rows) }

--------------------------------------------------------------------------
(* POST /api/attempts: src/app/api/attempts/route.ts.  session_id 0 is     *)
(* NULL.  created_at is datetime('now'): the second of the previous row or *)
(* a later one (the model numbers the seconds in which rows were written). *)

LastCreatedAt(rows) == IF Len(rows) = 0 THEN 0 ELSE rows[Len(rows)].created_at

AttemptOutcome(questionId, selectedAnswer) ==
    IF questionId = "" \/ selectedAnswer = ""
    THEN [status |-> 400, isCorrect |-> FALSE]
    ELSE IF StartsWithQC(questionId)
         THEN IF getQCodeById(questionId) = Null
              THEN [status |-> 404, isCorrect |-> FALSE]
              ELSE [status |-> 200, isCorrect |-> selectedAnswer = "CORRECT"]
    ELSE IF getQuestionById(questionId) = Null
         THEN [status |-> 404, isCorrect |-> FALSE]
         ELSE [status |-> 200, isCorrect |-> CorrectAnswerLetter(questionId) = selectedAnswer]

\* the row is inserted whatever the outcome of the validation
PostAttempt_InsertAlways(questionId, selectedAnswer, sessionId, sameSecond) ==
    LET outcome == AttemptOutcome(questionId, selectedAnswer)
        row == [ question_id |-> questionId,
                 session_id |-> sessionId,
                 selected_answer |-> selectedAnswer,
                 is_correct |-> IF outcome.isCorrect THEN 1 ELSE 0,
                 created_at |-> LastCreatedAt(log) + 1 ]
    IN  /\ Len(log) < MaxLog
        /\ log' = Append(log, row)
        /\ call' = [ kind |-> "attempt", questionId |-> questionId,
                     selectedAnswer |-> selectedAnswer, sessionId |-> sessionId,
                     status |-> outcome.status, isCorrect |-> outcome.isCorrect ]
        /\ run' = <<>>
        /\ UNCHANGED <<questionsCache, sessions>>

\* the attempts table keeps the latest attempt only
PostAttempt_Replace(questionId, selectedAnswer, sessionId, sameSecond) ==
    LET outcome == AttemptOutcome(questionId, selectedAnswer)
        row == [ question_id |-> questionId,
                 session_id |-> sessionId,
                 selected_answer |-> selectedAnswer,
                 is_correct |-> IF outcome.isCorrect THEN 1 ELSE 0,
                 created_at |-> LastCreatedAt(log) + 1 ]
    IN  /\ outcome.status = 200 => Len(log) < MaxLog
        /\ log' = IF outcome.status = 200 THEN <<row>> ELSE log
        /\ call' = [ kind |-> "attempt", questionId |-> questionId,
                     selectedAnswer |-> selectedAnswer, sessionId |-> sessionId,
                     status |-> outcome.status, isCorrect |-> outcome.isCorrect ]
        /\ run' = <<>>
        /\ UNCHANGED <<questionsCache, sessions>>

PostAttempt(questionId, selectedAnswer, sessionId, sameSecond) ==
    LET outcome == AttemptOutcome(questionId, selectedAnswer)
        row == [ question_id |-> questionId,
                 session_id |-> sessionId,
                 selected_answer |-> selectedAnswer,
                 is_correct |-> IF outcome.isCorrect THEN 1 ELSE 0,
                 created_at |-> IF sameSecond /\ Len(log) > 0
                                THEN LastCreatedAt(log)
                                ELSE LastCreatedAt(log) + 1 ]
    IN  /\ outcome.status = 200 => Len(log) < MaxLog
        /\ log' = IF outcome.status = 200 THEN Append(log, row) ELSE log
        /\ call' = [ kind |-> "attempt", questionId |-> questionId,
                     selectedAnswer |-> selectedAnswer, sessionId |-> sessionId,
                     status |-> outcome.status, isCorrect |-> outcome.isCorrect ]
        /\ run' = <<>>
        /\ UNCHANGED <<questionsCache, sessions>>

--------------------------------------------------------------------------
(* The next-item calls.  call records the request and the response; run    *)
(* follows what repeated calls return.                                     *)

\* the cursor the pages keep in local storage after a call: the one of the
\* response when it carries one, else the one they sent
ClientCursor(c) ==
    IF c.res.shuffledOrder # <<>>
    THEN [shuffledOrder |-> c.res.shuffledOrder, currentIndex |-> c.res.currentIndex]
    ELSE [shuffledOrder |-> c.shuffledOrder, currentIndex |-> c.currentIndex]

\* the ids of the pool a request names, in catalog order; none for a
\* section without questions or an unknown alphabet
PoolIds(route, pool) ==
    IF route = "questions"
    THEN Ids(IF pool # Null THEN SelectSeq(getQuestions, LAMBDA q : q.section = pool)
             ELSE getQuestions)
    ELSE IF route = "q-codes" THEN Ids(getQCodes)
    ELSE IF pool \in {"polish", "nato"} THEN Ids(getAlphabet(pool))
    ELSE <<>>

\* the same request as the last call, with the cursor carried forward
Repeats(c, route, pool, excludeParam, recentAnswers, forcePhase, cursor, now) ==
    /\ c.kind = "next"
    /\ c.route = route /\ c.pool = pool
    /\ c.exclude = excludeParam /\ c.recent = recentAnswers
    /\ c.forcePhase = forcePhase /\ c.now = now
    /\ cursor = ClientCursor(c)

\* what run keeps of a call: the cursor it sent and the item it returned
RunEntry(cursor, res) ==
    [ shuffledOrder |-> cursor.shuffledOrder, currentIndex |-> cursor.currentIndex,
      item |-> res.item ]

NextItemCall(route, pool, excludeParam, recentAnswers, forcePhase, cursor, now, res) ==
    LET repeats == Repeats(call, route, pool, excludeParam, recentAnswers,
                           forcePhase, cursor, now)
    IN  /\ repeats => Len(run) < MaxRun /\ Len(run) < Len(PoolIds(route, pool))
        /\ call' = [ kind |-> "next", route |-> route, pool |-> pool,
                     exclude |-> excludeParam, recent |-> recentAnswers,
                     forcePhase |-> forcePhase,
                     shuffledOrder |-> cursor.shuffledOrder,
                     currentIndex |-> cursor.currentIndex,
                     now |-> now, res |-> res ]
        /\ run' = IF repeats THEN Append(run, RunEntry(cursor, res))
                  ELSE <<RunEntry(cursor, res)>>
        /\ UNCHANGED <<questionsCache, log, sessions>>

GetQuestionsNext(section, excludeParam, recentAnswers, forcePhase, cursor, now) ==
    \E res \in QuestionsNext(section, excludeParam, recentAnswers, forcePhase,
                             cursor.shuffledOrder, cursor.currentIndex, log, now) :
        NextItemCall("questions", section, excludeParam, recentAnswers, forcePhase,
                     cursor, now, res)

GetQCodesNext(excludeParam, recentAnswers, cursor, now) ==
    \E res \in QCodesNext(excludeParam, recentAnswers,
                          cursor.shuffledOrder, cursor.currentIndex, log, now) :
        NextItemCall("q-codes", Null, excludeParam, recentAnswers, Null, cursor, now, res)

GetAlphabetNext(typeParam, excludeParam, recentAnswers, cursor, now) ==
    \E res \in AlphabetNext(typeParam, excludeParam, recentAnswers,
                            cursor.shuffledOrder, cursor.currentIndex, log, now) :
        NextItemCall("alphabet", typeParam, excludeParam, recentAnswers, Null,
                     cursor, now, res)

-----------------------------------------------------------------------------------------------------------------------------------------------
(* The requests the model submits.  A page sends one request and then      *)
(* either repeats it with the cursor it holds or records an answer, so a   *)
(* request that differs from the last one is sent after an answer (or      *)
(* first): the attempts table is all the server keeps, and the response to *)
(* a request does not depend on the requests before it.                    *)

\* an id that is in no catalog
Foreign == "X"

First(ids) == ids[1]
Last(ids) == ids[Len(ids)]
Reverse(ids) == [i \in 1..Len(ids) |-> ids[Len(ids) + 1 - i]]

Hint(id, at) == [questionId |-> id, answeredAt |-> at]

\* id answered at time 0, then the ids of others, at times 1..Len(others)
OldestThen(id, others) ==
    <<Hint(id, 0)>> \o [i \in 1..Len(others) |-> Hint(others[i], i)]

\* count answers of one id
Repeated(id, count) == [i \in 1..count |-> id]

\* ids that are in no catalog, all different
ForeignIds == <<"X1", "X2", "X3", "X4", "X5", "X6", "X7", "X8", "X9", "X10">>

HintIds(recentAnswers) == {recentAnswers[i].questionId : i \in 1..Len(recentAnswers)}

\* the time of a request just after the hinted answers
Soon == 10
\* the time of a request one cooling period later
Later(period) == period + 10

\* what is answered after the first id of the pool: count answers of the
\* last id of the pool, or count different ids outside the pool
Further(ids, count) == {Repeated(Last(ids), count), Slice(ForeignIds, count)}

\* recency hints and clock without an exclude parameter: no hint; the
\* first id of the pool answered before count further answers; each seen
\* soon and one cooling period later
CoolingHints(ids, period, count) ==
    { [exclude |-> {}, recent |-> <<>>, now |-> Soon] }
    \cup { [exclude |-> {}, recent |-> OldestThen(First(ids), others), now |-> now] :
             others \in Further(ids, count), now \in {Soon, Later(period)} }

\* the same lists one cooling period later as the Q-code and alphabet pages
\* send them: with exclude = the ids of the list
PageHints(ids, period, count) ==
    { [exclude |-> HintIds(OldestThen(First(ids), others)),
       recent |-> OldestThen(First(ids), others),
       now |-> Later(period)] : others \in Further(ids, count) }

NoCursor == [shuffledOrder |-> <<>>, currentIndex |-> 0]

\* no cursor; a caller-made order of the pool; one that starts with a
\* foreign id; one that is exhausted
CursorParams(ids) ==
    { NoCursor,
      [shuffledOrder |-> Reverse(ids), currentIndex |-> 0],
      [shuffledOrder |-> <<Foreign>> \o ids, currentIndex |-> 0],
      [shuffledOrder |-> ids, currentIndex |-> Len(ids)] }

\* the cursors a request may carry: a new one after an answer, the one the
\* page holds when it repeats its request
CursorsNow(ids) ==
    IF call.kind = "next" THEN {ClientCursor(call)} ELSE CursorParams(ids)

\* a request that is new, or that repeats the last one
Admitted(route, pool, h, forcePhase, cursor) ==
    \/ call.kind # "next"
    \/ Repeats(call, route, pool, h.exclude, h.recent, forcePhase, cursor, h.now)

Sections == {Null, "S1", "S9"}
AlphabetTypes == {"polish", "nato", Null}

NoHints == [exclude |-> {}, recent |-> <<>>, now |-> Soon]

--------------------------------------------------------------------------
(* The specification *)

Init ==
    /\ questionsCache = StudyBank
    /\ log = <<>>
    /\ sessions = 0
    /\ call = [kind |-> "none"]
    /\ run = <<>>

RecordableIds == {"Q1", "Q2", "QC-1", "QC-2"}
AnswersOf(questionId) == IF StartsWithQC(questionId) THEN {"CORRECT", "WRONG"} ELSE {"A", "B"}

AnswerStep ==
    \E questionId \in RecordableIds :
        \E selectedAnswer \in AnswersOf(questionId) :
            PostAttempt(questionId, selectedAnswer, 0, FALSE)

\* the study page sends no phase parameter; a caller that forces a phase
\* is followed without hints and with every pool item hinted
QuestionsStep ==
    \E section \in Sections :
        LET ids == PoolIds("questions", section)
        IN  IF ids = <<>>
            THEN /\ Admitted("questions", section, NoHints, Null, NoCursor)
                 /\ GetQuestionsNext(section, {}, <<>>, Null, NoCursor, Soon)
            ELSE \/ \E h \in CoolingHints(ids, COOLING_PERIOD_MS, COOLING_QUESTION_COUNT),
                       cursor \in CursorsNow(ids) :
                       /\ Admitted("questions", section, h, Null, cursor)
                       /\ GetQuestionsNext(section, h.exclude, h.recent, Null, cursor, h.now)
                 \/ \E h \in { NoHints,
                               [exclude |-> {},
                                recent |-> OldestThen(First(ids),
                                              Repeated(Last(ids), COOLING_QUESTION_COUNT)),
                                now |-> Soon] },
                       cursor \in CursorsNow(ids) :
                       /\ Admitted("questions", section, h, "coverage", cursor)
                       /\ GetQuestionsNext(section, h.exclude, h.recent, "coverage",
                                           cursor, h.now)
                 \/ \E h \in { NoHints,
                               [exclude |-> {},
                                recent |-> OldestThen(First(ids),
                                              Repeated(Last(ids), COOLING_QUESTION_COUNT)),
                                now |-> Soon] } :
                       /\ Admitted("questions", section, h, "drilling", NoCursor)
                       /\ GetQuestionsNext(section, h.exclude, h.recent, "drilling",
                                           NoCursor, h.now)

QCodesStep ==
    LET ids == PoolIds("q-codes", Null)
    IN  \E h \in CoolingHints(ids, QCODE_COOLING_PERIOD_MS, QCODE_COOLING_QUESTION_COUNT)
                 \cup PageHints(ids, QCODE_COOLING_PERIOD_MS, QCODE_COOLING_QUESTION_COUNT),
           cursor \in CursorsNow(ids) :
           /\ Admitted("q-codes", Null, h, Null, cursor)
           /\ GetQCodesNext(h.exclude, h.recent, cursor, h.now)

\* No attempt on a letter is ever recorded (PostAttempt finds no letter in
\* the bank), so the response of the alphabet route does not depend on the
\* attempts table: its requests are followed on the empty table.
AlphabetStep ==
    /\ Len(log) = 0
    /\ \E typeParam \in AlphabetTypes :
        LET ids == PoolIds("alphabet", typeParam)
        IN  IF ids = <<>>
            THEN /\ Admitted("alphabet", typeParam, NoHints, Null, NoCursor)
                 /\ GetAlphabetNext(typeParam, {}, <<>>, NoCursor, Soon)
            ELSE \E h \in CoolingHints(ids, LETTER_COOLING_PERIOD_MS, COOLING_LETTER_COUNT)
                          \cup PageHints(ids, LETTER_COOLING_PERIOD_MS, COOLING_LETTER_COUNT),
                    cursor \in CursorsNow(ids) :
                    /\ Admitted("alphabet", typeParam, h, Null, cursor)
                    /\ GetAlphabetNext(typeParam, h.exclude, h.recent, cursor, h.now)

Next == AnswerStep \/ QuestionsStep \/ QCodesStep \/ AlphabetStep

Spec == Init /\ [][Next]_vars

--------------------------------------------------------------------------
(* Session assembler: POST /api/sessions.                                  *)

QUESTIONS_PER_SECTION == 5
\* the target of the single-section mode
SingleSectionTarget == 20

\* the GROUP BY question_id row of an item; last_was_wrong is computed by
\* the same ORDER BY created_at DESC LIMIT 1 subquery as in getQuestionStats
AttemptStatsOf(rows, qId, lastRow) ==
    [ question_id |-> qId,
      total_attempts |-> Cardinality(RowsOf(rows, qId)),
      correct_attempts |-> Cardinality({i \in RowsOf(rows, qId) : rows[i].is_correct = 1}),
      last_attempt_at |-> MaxCreatedAt(rows, qId),
      last_was_wrong |-> IF rows[lastRow].is_correct = 0 THEN 1 ELSE 0 ]

AttemptStatsMaps(rows) ==
    { [qId \in SeenIds(rows) |-> AttemptStatsOf(rows, qId, pick[qId])] : pick \in TieBreaks(rows) }

\* leastAnswered.sort((a, b) => a.attempts - b.attempts), a stable sort
\* the sort with the comparison reversed: most attempts first
RECURSIVE InsertByAttempts_MostFirst(_, _, _)
InsertByAttempts_MostFirst(sorted, id, statsMap) ==
    IF sorted = <<>> THEN <<id>>
    ELSE IF statsMap[Head(sorted)].total_attempts >= statsMap[id].total_attempts
         THEN <<Head(sorted)>> \o InsertByAttempts_MostFirst(Tail(sorted), id, statsMap)
    ELSE <<id>> \o sorted

RECURSIVE InsertByAttempts(_, _, _)
InsertByAttempts(sorted, id, statsMap) ==
    IF sorted = <<>> THEN <<id>>
    ELSE IF statsMap[Head(sorted)].total_attempts <= statsMap[id].total_attempts
         THEN <<Head(sorted)>> \o InsertByAttempts(Tail(sorted), id, statsMap)
    ELSE <<id>> \o sorted

RECURSIVE SortByAttemptsFrom(_, _, _, _)
SortByAttemptsFrom(ids, i, sorted, statsMap) ==
    IF i > Len(ids) THEN sorted
    ELSE SortByAttemptsFrom(ids, i + 1, InsertByAttempts(sorted, ids[i], statsMap), statsMap)

\* the comparator of wrongAnswers.sort is negative: a recent failure before
\* an older one, then the later last attempt first
WrongBefore(a, b, statsMap) ==
    LET recentA == statsMap[a].last_was_wrong = 1
        recentB == statsMap[b].last_was_wrong = 1
    IN  IF recentA # recentB THEN recentA
        ELSE statsMap[a].last_attempt_at > statsMap[b].last_attempt_at

RECURSIVE InsertWrong(_, _, _)
InsertWrong(sorted, id, statsMap) ==
    IF sorted = <<>> THEN <<id>>
    ELSE IF WrongBefore(id, Head(sorted), statsMap) THEN <<id>> \o sorted
    ELSE <<Head(sorted)>> \o InsertWrong(Tail(sorted), id, statsMap)

RECURSIVE SortWrongFrom(_, _, _, _)
SortWrongFrom(ids, i, sorted, statsMap) ==
    IF i > Len(ids) THEN sorted
    ELSE SortWrongFrom(ids, i + 1, InsertWrong(sorted, ids[i], statsMap), statsMap)

\* for (const id of candidates) { if (size >= targetCount) break;
\*                                if (!selectedIds.has(id)) selectedIds.add(id) }
\* on a Set, which keeps insertion order
\* the same loop on a list instead of a Set: no membership test
RECURSIVE AddFrom_List(_, _, _, _)
AddFrom_List(selectedIds, candidates, i, targetCount) ==
    IF i > Len(candidates) \/ Len(selectedIds) >= targetCount THEN selectedIds
    ELSE AddFrom_List(Append(selectedIds, candidates[i]), candidates, i + 1, targetCount)

RECURSIVE AddFrom(_, _, _, _)
AddFrom(selectedIds, candidates, i, targetCount) ==
    IF i > Len(candidates) \/ Len(selectedIds) >= targetCount THEN selectedIds
    ELSE IF \E k \in 1..Len(selectedIds) : selectedIds[k] = candidates[i]
         THEN AddFrom(selectedIds, candidates, i + 1, targetCount)
    ELSE AddFrom(Append(selectedIds, candidates[i]), candidates, i + 1, targetCount)

AddUpTo(selectedIds, candidates, targetCount) ==
    AddFrom(selectedIds, candidates, 1, targetCount)

\* Within one request Math.random() returns one of three values each time
\* it is called: 0, 1/2 or a value just below 1, so every
\* j = Math.floor(Math.random() * (i + 1)) is 0, (i + 1) div 2 or i
RandomValues == {"zero", "half", "one"}
DrawIndex(random, i) ==
    IF random = "zero" THEN 0 ELSE IF random = "half" THEN (i + 1) \div 2 ELSE i
DrawsOf(random, n) == [i \in 1..(n - 1) |-> DrawIndex(random, i)]

\* the cascade whose second stage takes only the items never answered wrongly
SelectionStages_WrongLater(questionPool, statsMap, targetCount, random) ==
    LET neverSeen == SelectSeq(questionPool, LAMBDA qId : qId \notin DOMAIN statsMap)
        attempted == SelectSeq(questionPool, LAMBDA qId : qId \in DOMAIN statsMap)
        wrong == SelectSeq(attempted,
                     LAMBDA qId : \/ statsMap[qId].last_was_wrong = 1
                                  \/ statsMap[qId].total_attempts > statsMap[qId].correct_attempts)
        neverWrong == SelectSeq(attempted, LAMBDA qId : qId \notin Range(wrong))
        leastAnswered == SortByAttemptsFrom(neverWrong, 1, <<>>, statsMap)
        wrongAnswers == SortWrongFrom(wrong, 1, <<>>, statsMap)
        afterNeverSeen == AddUpTo(<<>>, neverSeen, targetCount)
        afterLeastAnswered == AddUpTo(afterNeverSeen, leastAnswered, targetCount)
        afterWrongAnswers == AddUpTo(afterLeastAnswered, wrongAnswers, targetCount)
        shuffledPool == FisherYates(questionPool, DrawsOf(random, Len(questionPool)))
        afterFill == IF Len(afterWrongAnswers) < targetCount
                     THEN AddUpTo(afterWrongAnswers, shuffledPool, targetCount)
                     ELSE afterWrongAnswers
    IN  [ neverSeen |-> afterNeverSeen, leastAnswered |-> afterLeastAnswered,
          wrongAnswers |-> afterWrongAnswers, fill |-> afterFill ]

\* the four stages of selectQuestionsFromPool, as the lists after each
SelectionStages(questionPool, statsMap, targetCount, random) ==
    LET neverSeen == SelectSeq(questionPool, LAMBDA qId : qId \notin DOMAIN statsMap)
        attempted == SelectSeq(questionPool, LAMBDA qId : qId \in DOMAIN statsMap)
        leastAnswered == SortByAttemptsFrom(attempted, 1, <<>>, statsMap)
        wrong == SelectSeq(attempted,
                     LAMBDA qId : \/ statsMap[qId].last_was_wrong = 1
                                  \/ statsMap[qId].total_attempts > statsMap[qId].correct_attempts)
        wrongAnswers == SortWrongFrom(wrong, 1, <<>>, statsMap)
        afterNeverSeen == AddUpTo(<<>>, neverSeen, targetCount)
        afterLeastAnswered == AddUpTo(afterNeverSeen, leastAnswered, targetCount)
        afterWrongAnswers == AddUpTo(afterLeastAnswered, wrongAnswers, targetCount)
        shuffledPool == FisherYates(questionPool, DrawsOf(random, Len(questionPool)))
        afterFill == IF Len(afterWrongAnswers) < targetCount
                     THEN AddUpTo(afterWrongAnswers, shuffledPool, targetCount)
                     ELSE afterWrongAnswers
    IN  [ neverSeen |-> afterNeverSeen, leastAnswered |-> afterLeastAnswered,
          wrongAnswers |-> afterWrongAnswers, fill |-> afterFill ]

selectQuestionsFromPool(questionPool, statsMap, targetCount, random) ==
    SelectionStages(questionPool, statsMap, targetCount, random).fill

\* getSections: the sections of the bank in the order of first occurrence
\* (a Set filled by questions.forEach keeps insertion order)
getSections ==
    LET sections == {getQuestions[i].section : i \in 1..Len(getQuestions)}
        indexes == [s \in sections |-> {i \in 1..Len(getQuestions) : getQuestions[i].section = s}]
        first == [s \in sections |-> CHOOSE i \in indexes[s] : \A j \in indexes[s] : i <= j]
    IN  [k \in 1..Cardinality(sections) |->
            CHOOSE s \in sections :
                Cardinality({t \in sections : first[t] < first[s]}) = k - 1]

SectionPool(section) == Ids(SelectSeq(getQuestions, LAMBDA q : q.section = section))

\* multi-section mode with the single-section target for every section
RECURSIVE AllSelectedFrom_SingleTarget(_, _, _, _)
AllSelectedFrom_SingleTarget(sections, i, statsMap, random) ==
    IF i > Len(sections) THEN <<>>
    ELSE selectQuestionsFromPool(SectionPool(sections[i]), statsMap,
                                 SingleSectionTarget, random)
             \o AllSelectedFrom_SingleTarget(sections, i + 1, statsMap, random)

\* multi-section mode: the selections of the sections, concatenated
RECURSIVE AllSelectedFrom(_, _, _, _)
AllSelectedFrom(sections, i, statsMap, random) ==
    IF i > Len(sections) THEN <<>>
    ELSE selectQuestionsFromPool(SectionPool(sections[i]), statsMap,
                                 QUESTIONS_PER_SECTION, random)
             \o AllSelectedFrom(sections, i + 1, statsMap, random)

\* a section without questions answered from the whole bank
SessionSelection_WholeBank(section, statsMap, random) ==
    LET selectedIds ==
            IF section # Null /\ Len(SectionPool(section)) > 0
            THEN selectQuestionsFromPool(SectionPool(section), statsMap,
                                         SingleSectionTarget, random)
            ELSE AllSelectedFrom(getSections, 1, statsMap, random)
    IN  [status |-> 200,
         questions |-> FisherYates(selectedIds, DrawsOf(random, Len(selectedIds)))]

\* the response of POST /api/sessions before the session row is inserted:
\* status and the shuffled ids
SessionSelection(section, statsMap, random) ==
    IF section # Null /\ Len(SectionPool(section)) = 0
    THEN [status |-> 400, questions |-> <<>>]
    ELSE LET selectedIds ==
                 IF section # Null
                 THEN selectQuestionsFromPool(SectionPool(section), statsMap,
                                              SingleSectionTarget, random)
                 ELSE AllSelectedFrom(getSections, 1, statsMap, random)
         IN  [status |-> 200,
              questions |-> FisherYates(selectedIds, DrawsOf(random, Len(selectedIds)))]

\* POST /api/sessions
PostSession(section, random) ==
    \E statsMap \in AttemptStatsMaps(log) :
        LET res == SessionSelection(section, statsMap, random)
        IN  /\ res.status = 200 => sessions < MaxSessions
            /\ sessions' = IF res.status = 200 THEN sessions + 1 ELSE sessions
            /\ call' = [ kind |-> "session-start", section |-> section,
                         status |-> res.status,
                         sessionId |-> IF res.status = 200 THEN sessions + 1 ELSE 0,
                         questions |-> res.questions,
                         totalQuestions |-> Len(res.questions) ]
            /\ run' = <<>>
            /\ UNCHANGED <<questionsCache, log>>

\* the ids of the banks of the session model
QuestionIds ==
    << "Q1", "Q2", "Q3", "Q4", "Q5", "Q6", "Q7", "Q8", "Q9", "Q10",
       "Q11", "Q12", "Q13", "Q14", "Q15", "Q16", "Q17", "Q18", "Q19", "Q20",
       "Q21", "Q22", "Q23", "Q24", "Q25", "Q26", "Q27", "Q28", "Q29", "Q30",
       "Q31", "Q32", "Q33", "Q34", "Q35", "Q36", "Q37" >>

SectionNames == <<"S1", "S2", "S3", "S4">>

\* a bank of four sections with the given numbers of questions, section by
\* section
RECURSIVE SectionOfIndex(_, _, _)
SectionOfIndex(sizes, k, i) ==
    IF k >= Len(sizes) \/ i <= sizes[k] THEN SectionNames[k]
    ELSE SectionOfIndex(sizes, k + 1, i - sizes[k])

RECURSIVE SumSizes(_)
SumSizes(sizes) == IF sizes = <<>> THEN 0 ELSE Head(sizes) + SumSizes(Tail(sizes))

BankOf(sizes) ==
    [i \in 1..SumSizes(sizes) |->
        [id |-> QuestionIds[i], section |-> SectionOfIndex(sizes, 1, i),
         correctAnswerLetter |-> "A"]]

\* a small first section, and four sections of at least five questions;
\* the last section is larger than the single-section target
SessionBanks == {BankOf(<<3, 5, 6, 21>>), BankOf(<<5, 5, 6, 21>>)}

InitSession ==
    /\ questionsCache \in SessionBanks
    /\ log = <<>>
    /\ sessions = 0
    /\ call = [kind |-> "none"]
    /\ run = <<>>

\* the questions that get answered: the first two of the third section
\* (one more question than the quota of a section) and the first of the
\* last one
AnsweredInSessions ==
    LET third == SectionPool("S3")
        last == SectionPool("S4")
    IN  {third[1], third[2], last[1]}

AnswerSessionStep ==
    \E questionId \in AnsweredInSessions, selectedAnswer \in {"A", "B"} :
        PostAttempt(questionId, selectedAnswer, 0, FALSE)

SessionSections == {Null, "S1", "S3", "S4", "S9"}

SessionStartStep ==
    \E section \in SessionSections, random \in RandomValues :
        PostSession(section, random)

NextSession == AnswerSessionStep \/ SessionStartStep

SpecSession == InitSession /\ [][NextSession]_vars

Min(a, b) == IF a <= b THEN a ELSE b

\* C4: for every attempt log and every pool, the ids returned by
\* session-start contain no id twice; in single-section mode on a section
\* that has questions the request succeeds and returns min(20, size of the
\* section) ids, all of that section: a section smaller than the target
\* yields that smaller number without error or padding.
C4_SessionBatch ==
    call.kind = "session-start" =>
        /\ call.status = 200 => NoDuplicates(call.questions)
        /\ (call.section # Null /\ Len(SectionPool(call.section)) > 0) =>
               /\ call.status = 200
               /\ Len(call.questions) = Min(20, Len(SectionPool(call.section)))
               /\ call.totalQuestions = Len(call.questions)
               /\ Range(call.questions) \subseteq Range(SectionPool(call.section))

\* a section of 21 questions, one of them answered before: the batch is the
\* 20 others
C4_Witness ==
    /\ call.kind = "session-start" /\ call.section = "S4"
    /\ Len(SectionPool("S4")) = 21
    /\ Len(call.questions) = 20
    /\ SectionPool("S4")[1] \in SeenIds(log)
    /\ SectionPool("S4")[1] \notin Range(call.questions)

\* the pools the cascade of a session-start call ran on: the section of
\* the filter, or every section of the bank
CascadePools(c) ==
    IF c.section # Null THEN {SectionPool(c.section)}
    ELSE {SectionPool(getSections[k]) : k \in 1..Len(getSections)}

CascadeTarget(c) == IF c.section # Null THEN SingleSectionTarget ELSE QUESTIONS_PER_SECTION

\* the batches a session-start request can be answered with on the
\* current log, over the random outcomes
BatchOutcomes(section) ==
    {Range(SessionSelection(section, statsMap, random).questions) :
        statsMap \in AttemptStatsMaps(log), random \in RandomValues}

\* C28: when a pool has more never-attempted items than its quota, the
\* never-attempted items placed in the batch are chosen in random order:
\* for every never-attempted item of the pool there is a random outcome in
\* which that item is in the batch.
C28_NeverAttemptedAtRandom ==
    (call.kind = "session-start" /\ call.status = 200) =>
        \A pool \in CascadePools(call) :
            LET neverAttempted == Range(pool) \ SeenIds(log)
            IN  Cardinality(neverAttempted) > CascadeTarget(call) =>
                    \A x \in neverAttempted :
                        \E batch \in BatchOutcomes(call.section) : x \in batch

\* a section of 21 never-attempted questions and a target of 20: every
\* outcome is the first 20 of the catalog, the last one is in none
C28_CatalogOrder ==
    /\ call.kind = "session-start" /\ call.section = "S4" /\ call.status = 200
    /\ Len(SectionPool("S4")) = 21 /\ Range(SectionPool("S4")) \cap SeenIds(log) = {}
    /\ BatchOutcomes("S4") = {{SectionPool("S4")[i] : i \in 1..20}}
    /\ Range(call.questions) = {SectionPool("S4")[i] : i \in 1..20}

OfSection(questions, section) ==
    {i \in 1..Len(questions) : questions[i] \in Range(SectionPool(section))}

\* C14: a session-start request without a section filter succeeds and
\* returns, for every section of the bank, exactly min(5, number of
\* questions of the section) questions of that section and nothing else, so
\* with four sections of at least 5 questions the batch has 20 questions,
\* 5 per section.
C14_BalancedBatch ==
    (call.kind = "session-start" /\ call.section = Null) =>
        LET sections == getSections
            pools == [k \in 1..Len(sections) |-> SectionPool(sections[k])]
            taken == [k \in 1..Len(sections) |->
                        {i \in 1..Len(call.questions) : call.questions[i] \in Range(pools[k])}]
        IN  /\ call.status = 200
            /\ NoDuplicates(call.questions)
            /\ \A k \in 1..Len(sections) : Cardinality(taken[k]) = Min(5, Len(pools[k]))
            /\ \A i \in 1..Len(call.questions) : \E k \in 1..Len(sections) : i \in taken[k]
            /\ (Len(sections) = 4 /\ \A k \in 1..4 : Len(pools[k]) >= 5)
                   => Len(call.questions) = 20

\* four sections of 5, 5, 6 and 21 questions, some of them answered: 20
\* questions, 5 of the last section
C14_Witness ==
    /\ call.kind = "session-start" /\ call.section = Null
    /\ Len(SectionPool("S1")) = 5 /\ Len(SectionPool("S4")) = 21
    /\ Len(log) > 0
    /\ Len(call.questions) = 20
    /\ Cardinality(OfSection(call.questions, "S4")) = 5

--------------------------------------------------------------------------
(* The classifier on its own: computeConfidenceLevel applied to every      *)
(* argument triple within the bound.                                       *)

Classify(totalAttempts, correctAttempts, lastWasCorrect) ==
    /\ call' = [ kind |-> "classify",
                 totalAttempts |-> totalAttempts,
                 correctAttempts |-> correctAttempts,
                 lastWasCorrect |-> lastWasCorrect,
                 level |-> computeConfidenceLevel(totalAttempts, correctAttempts,
                                                  lastWasCorrect) ]
    /\ UNCHANGED <<questionsCache, log, sessions, run>>

NextClassifier ==
    \E totalAttempts \in 0..MaxAttempts, lastWasCorrect \in LastValues :
        \E correctAttempts \in 0..totalAttempts :
            Classify(totalAttempts, correctAttempts, lastWasCorrect)

SpecClassifier == Init /\ [][NextClassifier]_vars
\* C1: for every totalAttempts >= 0, 0 <= correctAttempts <= totalAttempts and
\* lastWasCorrect in {true, false, null}, computeConfidenceLevel returns one
\* of the five levels, and each level exactly when its rule is the first to
\* match: unseen iff total = 0; mastered iff total >= 3 and correct = total;
\* weak iff neither of these and (last answer wrong or correct/total < 50%);
\* strong iff none of these and correct/total > 80% and total >= 2;
\* learning iff no rule matches.
C1_ClassifierCascade ==
    call.kind = "classify" =>
        LET t == call.totalAttempts
            c == call.correctAttempts
            isUnseen == t = 0
            isMastered == t >= 3 /\ c = t
            isWeak == call.lastWasCorrect = "false" \/ 100 * c < 50 * t
            isStrong == 100 * c > 80 * t /\ t >= 2
        IN  /\ call.level \in Levels
            /\ call.level = "unseen" <=> isUnseen
            /\ call.level = "mastered" <=> ~isUnseen /\ isMastered
            /\ call.level = "weak" <=> ~isUnseen /\ ~isMastered /\ isWeak
            /\ call.level = "strong" <=> ~isUnseen /\ ~isMastered /\ ~isWeak /\ isStrong
            /\ call.level = "learning" <=>
                   ~isUnseen /\ ~isMastered /\ ~isWeak /\ ~isStrong

\* 3 correct of 4 with the last one correct is 75%: learning, not strong
C1_Witness ==
    /\ call.kind = "classify"
    /\ call.totalAttempts = 4 /\ call.correctAttempts = 3
    /\ call.lastWasCorrect = "true"
    /\ call.level = "learning"

--------------------------------------------------------------------------
(* The statistics on their own: the attempts table grows, rows may share a *)
(* second, and the phase of a pool is computed from it.                    *)

\* the pools of the routes: all questions, one section, the Q codes, an alphabet
Pools ==
    { PoolIds("questions", Null), PoolIds("questions", "S1"), PoolIds("questions", "S2"),
      PoolIds("q-codes", Null), PoolIds("alphabet", "polish"), PoolIds("alphabet", "nato") }

DeterminePhaseCall(questionIds) ==
    /\ \E statsMap \in StatsMaps(log) :
          call' = [ kind |-> "phase", questionIds |-> questionIds,
                    phase |-> determinePhase(questionIds, statsMap) ]
    /\ UNCHANGED <<questionsCache, log, sessions, run>>

AnswerAnySecond ==
    \E questionId \in RecordableIds, sameSecond \in BOOLEAN :
        \E selectedAnswer \in AnswersOf(questionId) :
            PostAttempt(questionId, selectedAnswer, 0, sameSecond)

PhaseStep == \E questionIds \in Pools : DeterminePhaseCall(questionIds)

NextStats == AnswerAnySecond \/ PhaseStep

SpecStats == Init /\ [][NextStats]_vars

--------------------------------------------------------------------------
(* The statistics of an attempt log: answers that may fall into the same   *)
(* second, and reads of the statistics map.                                *)

\* one call of getQuestionStats: any resolution of the ties of the subquery
GetQuestionStatsCall ==
    /\ \E statsMap \in StatsMaps(log) : call' = [kind |-> "stats", statsMap |-> statsMap]
    /\ UNCHANGED <<questionsCache, log, sessions, run>>

NextStatistics == AnswerAnySecond \/ GetQuestionStatsCall

SpecStatistics == Init /\ [][NextStatistics]_vars

\* the most recently appended row of an item
LastAppended(rows, qId) == CHOOSE i \in RowsOf(rows, qId) : \A k \in RowsOf(rows, qId) : k <= i

\* the counts of the statistics of every item with a record
C25_Counts ==
    call.kind = "stats" =>
        /\ DOMAIN call.statsMap = SeenIds(log)
        /\ \A qId \in SeenIds(log) :
              /\ call.statsMap[qId].totalAttempts = Cardinality(RowsOf(log, qId))
              /\ call.statsMap[qId].correctAttempts =
                     Cardinality({i \in RowsOf(log, qId) : log[i].is_correct = 1})

\* lastWasCorrect is the isCorrect value of the most recently appended row
C25_LastIsLastAppended ==
    call.kind = "stats" =>
        \A qId \in SeenIds(log) :
            call.statsMap[qId].lastWasCorrect
                = BoolStr(log[LastAppended(log, qId)].is_correct = 1)

\* C25: for every attempt log, the statistics computed for an item are
\* totalAttempts = the number of its records, correctAttempts = the number
\* of its correct records, and lastWasCorrect = the isCorrect value of its
\* most recently appended record, including when several records of that
\* item carry the same creation timestamp.
C25_StatsOfLog == C25_Counts /\ C25_LastIsLastAppended

\* the same for the items whose latest creation timestamp is carried by
\* one record only
C25_LastWithoutTies ==
    call.kind = "stats" =>
        \A qId \in SeenIds(log) :
            Cardinality(LastRowCandidates(log, qId)) = 1 =>
                call.statsMap[qId].lastWasCorrect
                    = BoolStr(log[LastAppended(log, qId)].is_correct = 1)

\* Q1 answered correctly, then wrongly within the same second; the
\* statistics report the last attempt as correct
C25_EarlierRowTaken ==
    /\ call.kind = "stats"
    /\ Len(log) = 2 /\ log[1].question_id = "Q1" /\ log[2].question_id = "Q1"
    /\ log[1].created_at = log[2].created_at
    /\ log[1].is_correct = 1 /\ log[2].is_correct = 0
    /\ call.statsMap["Q1"].lastWasCorrect = "true"

\* C26: for every attempt log, an item whose most recent attempt is wrong
\* is classified weak, whatever its earlier history: it is not strong,
\* learning or mastered until a later correct attempt is appended.
C26_WrongLastIsWeak ==
    call.kind = "stats" =>
        \A qId \in SeenIds(log) :
            log[LastAppended(log, qId)].is_correct = 0
                => call.statsMap[qId].confidenceLevel = "weak"

\* the same for the items whose latest creation timestamp is carried by
\* one record only
C26_WrongLastWithoutTies ==
    call.kind = "stats" =>
        \A qId \in SeenIds(log) :
            (/\ Cardinality(LastRowCandidates(log, qId)) = 1
             /\ log[LastAppended(log, qId)].is_correct = 0)
                => call.statsMap[qId].confidenceLevel = "weak"

\* Q1 answered correctly, then wrongly within the same second, and
\* classified learning
C26_LearningAfterWrong ==
    /\ call.kind = "stats"
    /\ Len(log) = 2 /\ log[1].question_id = "Q1" /\ log[2].question_id = "Q1"
    /\ log[1].created_at = log[2].created_at
    /\ log[1].is_correct = 1 /\ log[2].is_correct = 0
    /\ call.statsMap["Q1"].confidenceLevel = "learning"

\* two correct answers, then a wrong one in a later second: weak
C26_WeakAfterLaterWrong ==
    /\ call.kind = "stats"
    /\ Len(log) = 3 /\ \A i \in 1..3 : log[i].question_id = "Q1"
    /\ log[1].is_correct = 1 /\ log[2].is_correct = 1 /\ log[3].is_correct = 0
    /\ log[3].created_at > log[2].created_at
    /\ call.statsMap["Q1"].confidenceLevel = "weak"

\* the rows of the attempts table on the items of a pool
RowsOnPool(rows, ids) == SelectSeq(rows, LAMBDA row : row.question_id \in Range(ids))

\* an item is classified mastered, whichever of its rows counts as the last
MasteredByLog(rows, qId) ==
    \A last \in {"true", "false"} :
        computeConfidenceLevel(
            Cardinality(RowsOf(rows, qId)),
            Cardinality({i \in RowsOf(rows, qId) : rows[i].is_correct = 1}),
            last) = "mastered"

\* C6: for every non-empty pool and every attempt log, determinePhase
\* returns coverage iff at least one pool item has no attempt record,
\* mastered iff every pool item is classified mastered, and drilling in
\* every other case; the records of items outside the pool do not
\* influence the result (it is the phase computed from the pool's records
\* alone).
C6_PhaseOfPool ==
    call.kind = "phase" =>
        LET ids == call.questionIds
            someUnseen == \E i \in 1..Len(ids) : RowsOf(log, ids[i]) = {}
            allMastered == \A i \in 1..Len(ids) : MasteredByLog(log, ids[i])
        IN  /\ Len(ids) > 0
            /\ call.phase = "coverage" <=> someUnseen
            /\ call.phase = "mastered" <=> allMastered
            /\ call.phase = "drilling" <=> ~someUnseen /\ ~allMastered
            /\ \A statsMap \in StatsMaps(RowsOnPool(log, ids)) :
                   call.phase = determinePhase(ids, statsMap)

\* a section whose only question has three correct answers is mastered
\* while the whole bank is in coverage
C6_Witness ==
    /\ call.kind = "phase" /\ call.questionIds = <<"Q1">>
    /\ call.phase = "mastered"
    /\ \E statsMap \in StatsMaps(log) : determinePhase(<<"Q1", "Q2">>, statsMap) = "coverage"

--------------------------------------------------------------------------
(* The weighted selector on its own: applied to a pool of three items of   *)
(* every combination of levels, under every exclusion set.                 *)

WeighedItems == << [id |-> "W1"], [id |-> "W2"], [id |-> "W3"] >>

\* the last attempts of the three items, none at the same time
WeighedLastAttemptAt == [id \in Range(Ids(WeighedItems)) |->
                            IF id = "W1" THEN 1 ELSE IF id = "W2" THEN 3 ELSE 2]

\* the statistics map in which the items have the given levels (an unseen
\* item has no entry)
WeighedStats(levels) ==
    [id \in {x \in DOMAIN levels : levels[x] # "unseen"} |->
        [confidenceLevel |-> levels[id], lastAttemptAt |-> WeighedLastAttemptAt[id]]]

\* the number of draws of RandomDraws, one per interval of width 5 of
\* [0, totalWeight), for which the loop returns the item
DrawsReturning(pool, id) ==
    Cardinality({random \in RandomDraws(SumWeights(pool)) : DrawFrom(pool, 1, random) = id})

WeightedSelectorRoutes == {"questions", "q-codes", "alphabet"}

\* the arguments of one call: a route, the levels of the items, an exclusion set
InitWeighted ==
    /\ questionsCache = StudyBank
    /\ log = <<>>
    /\ sessions = 0
    /\ run = <<>>
    /\ \E route \in WeightedSelectorRoutes,
          levels \in [Range(Ids(WeighedItems)) -> Levels],
          excludeIds \in SUBSET Range(Ids(WeighedItems)) :
           call = [ kind |-> "weighted-arguments", route |-> route, levels |-> levels,
                    excludeIds |-> excludeIds ]

SelectWeighted ==
    LET statsMap == WeighedStats(call.levels)
        ids == Ids(WeighedItems)
        pool == IF call.route = "questions"
                THEN WeightedPoolQuestions(ids, statsMap, call.excludeIds)
                ELSE WeightedPool(ids, statsMap, call.excludeIds)
        outcomes == IF call.route = "questions"
                    THEN selectWeightedQuestion(WeighedItems, statsMap, call.excludeIds)
                    ELSE IF call.route = "q-codes"
                    THEN selectWeightedQCode(WeighedItems, statsMap, call.excludeIds)
                    ELSE selectWeightedLetter(WeighedItems, statsMap, call.excludeIds)
    IN  /\ call.kind = "weighted-arguments"
        /\ call' = [ kind |-> "weighted", route |-> call.route, levels |-> call.levels,
                     excludeIds |-> call.excludeIds,
                     draws |-> Cardinality(RandomDraws(SumWeights(pool))),
                     returning |-> [id \in Range(ids) |-> DrawsReturning(pool, id)],
                     outcomes |-> outcomes ]
        /\ UNCHANGED <<questionsCache, log, sessions, run>>

NextWeighted == SelectWeighted

SpecWeighted == InitWeighted /\ [][NextWeighted]_vars

\* the items of a weighted call that are weak, learning or strong and not
\* excluded
EligibleWeighed(c) ==
    {id \in DOMAIN c.levels :
        c.levels[id] \in {"weak", "learning", "strong"} /\ id \notin c.excludeIds}

WeightOfLevel(level) ==
    IF level = "weak" THEN 70 ELSE IF level = "learning" THEN 25 ELSE 5

RECURSIVE SumOver(_, _)
SumOver(set, f) ==
    IF set = {} THEN 0
    ELSE LET x == CHOOSE y \in set : TRUE IN f[x] + SumOver(set \ {x}, f)

\* C11: in the weighted selector of the next-item routes, for a
\* draw uniform over the cumulative weight sum, the share of the draw range
\* that returns an eligible item is its level's weight (weak 70, learning
\* 25, strong 5) over the sum of the weights of all eligible items; every
\* eligible item has a non-empty range, no other item has one, and the
\* items that can be returned are exactly the eligible ones.
C11_WeightedShares ==
    call.kind = "weighted" =>
        LET eligible == EligibleWeighed(call)
            weights == [id \in eligible |-> WeightOfLevel(call.levels[id])]
            total == SumOver(eligible, weights)
        IN  /\ \A id \in eligible :
                   /\ call.returning[id] > 0
                   /\ call.returning[id] * total = weights[id] * call.draws
            /\ \A id \in DOMAIN call.levels \ eligible : call.returning[id] = 0
            /\ eligible # {} => call.draws > 0 /\ call.outcomes = eligible
            /\ eligible = {} => call.outcomes = {Null}

\* C24: the weighted selector never returns an unseen item or a mastered
\* item: whatever the draw, its result is a pool item classified weak,
\* learning or strong, or null when no such item is eligible (none outside
\* the exclusion set), and null only then.
C24_NeverUnseenNorMastered ==
    call.kind = "weighted" =>
        /\ \A x \in call.outcomes \ {Null} :
               /\ x \in Range(Ids(WeighedItems))
               /\ call.levels[x] \in {"weak", "learning", "strong"}
               /\ call.levels[x] \notin {"unseen", "mastered"}
        /\ Null \in call.outcomes <=> EligibleWeighed(call) = {}

\* the letter selector on an unseen, a mastered and a strong item: every
\* draw returns the strong one
C24_Witness ==
    /\ call.kind = "weighted" /\ call.route = "alphabet"
    /\ call.levels["W1"] = "unseen" /\ call.levels["W2"] = "mastered"
    /\ call.levels["W3"] = "strong" /\ call.excludeIds = {}
    /\ call.outcomes = {"W3"}

\* nothing but unseen and mastered items: null
C24_NullWitness ==
    /\ call.kind = "weighted" /\ call.route = "questions"
    /\ \A id \in DOMAIN call.levels : call.levels[id] \in {"unseen", "mastered"}
    /\ call.excludeIds = {}
    /\ call.outcomes = {Null}

\* one weak, one learning and one strong item, all eligible: 14, 5 and 1 of
\* the 20 intervals of the draw range
C11_Witness ==
    /\ call.kind = "weighted" /\ call.route = "questions"
    /\ call.excludeIds = {}
    /\ call.levels["W1"] = "strong" /\ call.levels["W2"] = "weak"
    /\ call.levels["W3"] = "learning"
    /\ call.draws = 20
    /\ call.returning["W2"] = 14 /\ call.returning["W3"] = 5 /\ call.returning["W1"] = 1

--------------------------------------------------------------------------
(* The hint parameters as the routes receive them: query strings.          *)
(* recentTimestamps is absent, or text that JSON.parse rejects, or JSON    *)
(* text of a value; currentIndex is absent, a number or other text.        *)

\* [kind, list]: list is the parsed array when kind = "list"
RecentParam(kind, list) == [kind |-> kind, list |-> list]
AbsentRecent == RecentParam("absent", <<>>)

\* recentAnswers after 'if (recentTimestampsParam) { try { recentAnswers =
\* JSON.parse(...) } catch {} }': [] when absent or rejected, else the value
\* 'for (const recent of recentAnswers)' then throws a TypeError on a value
\* that is not iterable: null, a number, an object
Iterates(recentParam) == recentParam.kind \in {"absent", "unparseable", "list"}
ParsedRecent(recentParam) == IF recentParam.kind = "list" THEN recentParam.list ELSE <<>>

\* [kind, value]: value is the number when kind = "number"
IndexParam(kind, value) == [kind |-> kind, value |-> value]
AbsentIndex == IndexParam("absent", 0)

\* currentIndexParam ? parseInt(currentIndexParam, 10) : 0.  parseInt of
\* text that holds no number is NaN, and 'while (NaN < shuffledOrder.length)'
\* is not entered: the scan behaves as from the end of the order
ScanStart(indexParam, shuffledOrderParam) ==
    IF indexParam.kind = "absent" THEN 0
    ELSE IF indexParam.kind = "number" THEN indexParam.value
    ELSE Len(shuffledOrderParam)

\* an exception that leaves the handler is answered with status 500
ServerError == ErrorResponse(500)

\* GET /api/questions/next on the query string
QuestionsGet(section, excludeParam, recentParam, forcePhase, shuffledOrderParam, indexParam, rows, now) ==
    IF PoolIds("questions", section) = <<>>
    THEN QuestionsNext(section, excludeParam, <<>>, forcePhase, shuffledOrderParam, 0, rows, now)
    ELSE IF ~Iterates(recentParam) THEN {ServerError}
    ELSE QuestionsNext(section, excludeParam, ParsedRecent(recentParam), forcePhase,
                       shuffledOrderParam, ScanStart(indexParam, shuffledOrderParam), rows, now)

\* Q-code and alphabet routes on the query string: the mastered phase
\* returns before the hints are parsed
SmallPoolGet(items, excludeParam, recentParam, shuffledOrderParam, indexParam, rows, now, period, count) ==
    UNION { IF determinePhase(Ids(items), statsMap) # "mastered" /\ ~Iterates(recentParam)
            THEN {ServerError}
            ELSE SmallPoolSelect(items, statsMap,
                                 ExcludeIds(excludeParam, ParsedRecent(recentParam), now,
                                            period, count),
                                 shuffledOrderParam,
                                 ScanStart(indexParam, shuffledOrderParam))
          : statsMap \in StatsMaps(rows) }

\* GET /api/q-codes/next on the query string
QCodesGet(excludeParam, recentParam, shuffledOrderParam, indexParam, rows, now) ==
    SmallPoolGet(getQCodes, excludeParam, recentParam, shuffledOrderParam, indexParam,
                 rows, now, QCODE_COOLING_PERIOD_MS, QCODE_COOLING_QUESTION_COUNT)

\* GET /api/alphabet/next on the query string
AlphabetGet(typeParam, excludeParam, recentParam, shuffledOrderParam, indexParam, rows, now) ==
    IF typeParam \notin {"polish", "nato"} THEN {ErrorResponse(400)}
    ELSE SmallPoolGet(getAlphabet(typeParam), excludeParam, recentParam, shuffledOrderParam,
                      indexParam, rows, now, LETTER_COOLING_PERIOD_MS, COOLING_LETTER_COUNT)

\* the responses of a route to a query
GetResponses(route, pool, recentParam, shuffledOrderParam, indexParam, rows, now) ==
    IF route = "questions"
    THEN QuestionsGet(pool, {}, recentParam, Null, shuffledOrderParam, indexParam, rows, now)
    ELSE IF route = "q-codes"
    THEN QCodesGet({}, recentParam, shuffledOrderParam, indexParam, rows, now)
    ELSE AlphabetGet(pool, {}, recentParam, shuffledOrderParam, indexParam, rows, now)

\* the recentTimestamps values submitted: none, rejected text, the JSON
\* values null, 5 and {}, and the list in which the first id of the pool
\* was answered first
RecentParams(ids) ==
    { AbsentRecent, RecentParam("unparseable", <<>>), RecentParam("null", <<>>),
      RecentParam("number", <<>>), RecentParam("object", <<>>),
      RecentParam("list", OldestThen(First(ids), <<Last(ids)>>)) }

\* the currentIndex values submitted: none, 1, text without a number
IndexParams == { AbsentIndex, IndexParam("number", 1), IndexParam("not-a-number", 0) }

\* the pools queried: all questions, one section, the Q codes, an alphabet
QueriedPools ==
    { [route |-> "questions", pool |-> Null], [route |-> "questions", pool |-> "S1"],
      [route |-> "q-codes", pool |-> Null], [route |-> "alphabet", pool |-> "polish"] }

\* a query is sent first or after an answer
QueryStep ==
    /\ call.kind # "query"
    /\ \E p \in QueriedPools :
         LET ids == PoolIds(p.route, p.pool)
         IN  \E recentParam \in RecentParams(ids), indexParam \in IndexParams,
                shuffledOrderParam \in {<<>>, Reverse(ids)} :
               \E res \in GetResponses(p.route, p.pool, recentParam, shuffledOrderParam,
                                       indexParam, log, Soon) :
                  /\ call' = [ kind |-> "query", route |-> p.route, pool |-> p.pool,
                               recentParam |-> recentParam,
                               shuffledOrder |-> shuffledOrderParam,
                               indexParam |-> indexParam, now |-> Soon, res |-> res ]
                  /\ run' = <<>>
                  /\ UNCHANGED <<questionsCache, log, sessions>>

\* the answers recorded between queries: on the first question and the
\* first Q code
AnswerBetweenQueries ==
    \E questionId \in {"Q1", "QC-1"} :
        \E selectedAnswer \in AnswersOf(questionId) :
            PostAttempt(questionId, selectedAnswer, 0, FALSE)

NextQueries == AnswerBetweenQueries \/ QueryStep

SpecQueries == Init /\ [][NextQueries]_vars

\* a query whose cooling or cursor hint is malformed
MalformedRecent(c) == c.recentParam.kind \notin {"absent", "list"}
MalformedIndex(c) == c.indexParam.kind = "not-a-number"

\* the same query with the malformed hints left out
WithoutMalformed(c) ==
    GetResponses(c.route, c.pool,
                 IF MalformedRecent(c) THEN AbsentRecent ELSE c.recentParam,
                 c.shuffledOrder,
                 IF MalformedIndex(c) THEN AbsentIndex ELSE c.indexParam,
                 log, c.now)

\* C12: a next-item request with a malformed hint (recentTimestamps that is
\* not parseable JSON, or JSON that is not a list of records; currentIndex
\* that is not a number) does not fail and returns what the same request
\* without that hint returns.
C12_MalformedHintsNeverFail ==
    (call.kind = "query" /\ (MalformedRecent(call) \/ MalformedIndex(call))) =>
        /\ call.res.status = 200
        /\ call.res \in WithoutMalformed(call)

\* recentTimestamps text that JSON.parse rejects is treated as absent
C12_RejectedTextIsAbsent ==
    (call.kind = "query" /\ call.recentParam.kind = "unparseable"
                         /\ ~MalformedIndex(call)) =>
        /\ call.res.status = 200
        /\ call.res \in WithoutMalformed(call)

\* recentTimestamps=null on the questions route: status 500
C12_JsonNullFails ==
    /\ call.kind = "query" /\ call.route = "questions"
    /\ call.recentParam.kind = "null"
    /\ call.res.status = 500

\* a currentIndex without a number skips the supplied order: an item is
\* returned that the order does not start with, and no cursor comes back
C12_NaNIndexSkipsOrder ==
    /\ call.kind = "query" /\ call.route = "q-codes"
    /\ call.recentParam.kind = "absent" /\ MalformedIndex(call)
    /\ call.shuffledOrder = <<"QC-2", "QC-1">>
    /\ call.res.status = 200 /\ call.res.item = "QC-1"
    /\ call.res.shuffledOrder = <<>>

--------------------------------------------------------------------------
(* Section filters: next-item and session-start requests on the study      *)
(* bank, with no section, a section of the bank and a section that no      *)
(* question has.                                                           *)

FilteredNextStep ==
    \E section \in Sections :
        /\ Admitted("questions", section, NoHints, Null, NoCursor)
        /\ GetQuestionsNext(section, {}, <<>>, Null, NoCursor, Soon)

FilteredSessionStep ==
    \E section \in Sections, random \in RandomValues :
        PostSession(section, random)

NextFilters == AnswerStep \/ FilteredNextStep \/ FilteredSessionStep

SpecFilters == Init /\ [][NextFilters]_vars

\* a section that no question of the bank has
MatchesNothing(section) == section # Null /\ Len(SectionPool(section)) = 0

\* what a request on such a section answers: an error, no item, no phase,
\* no cursor / no questions, no session id
RejectedFilter ==
    /\ (call.kind = "next" /\ call.route = "questions" /\ MatchesNothing(call.pool)) =>
           /\ call.res.status = 400
           /\ call.res.item = Null
           /\ call.res.phase = Null
           /\ call.res.shuffledOrder = <<>>
    /\ (call.kind = "session-start" /\ MatchesNothing(call.section)) =>
           /\ call.status = 400
           /\ call.questions = <<>> /\ call.totalQuestions = 0
           /\ call.sessionId = 0

\* the step of such a session-start request leaves the sessions table as it is
NoSessionRow ==
    (call'.kind = "session-start" /\ MatchesNothing(call'.section)) =>
        sessions' = sessions

\* C13: a next-item or session-start request whose section filter matches
\* no question of the bank is rejected with an error (status 400): it
\* selects no item, does not answer from the whole bank, does not answer
\* 'mastered', and session-start inserts no session row.
C13_EmptyFilterRejected == [](RejectedFilter) /\ [][NoSessionRow]_vars

\* session-start on a section without questions, rejected, while the bank
\* has questions that a request without section returns
C13_Witness ==
    /\ call.kind = "session-start" /\ call.section = "S9"
    /\ call.status = 400 /\ sessions = 0
    /\ Len(getQuestions) > 0

--------------------------------------------------------------------------
(* Session completion: PATCH /api/sessions.  A value of an SQL aggregate   *)
(* is a set: {} for NULL, {n} for the number n.                            *)

SqlNull == {}
SqlNumber(n) == {n}

\* the rows WHERE session_id = ?
RowsOfSession(rows, sessionId) == {i \in 1..Len(rows) : rows[i].session_id = sessionId}

\* COUNT(*): 0 over no rows
SqlCount(rows, indexes) == Cardinality(indexes)

\* SUM(is_correct): NULL over no rows
SqlSumCorrect(rows, indexes) ==
    IF indexes = {} THEN SqlNull
    ELSE SqlNumber(Cardinality({i \in indexes : rows[i].is_correct = 1}))

\* the number an arithmetic operand is converted to: null becomes 0
ToNumber(v) == IF v = SqlNull THEN 0 ELSE CHOOSE n \in v : TRUE

\* sectionStats: an entry for every section that has a row on one of its
\* questions; rows on ids outside the bank are skipped
SectionStatsOf(rows, indexes) ==
    LET onBank == {i \in indexes : getQuestionById(rows[i].question_id) # Null}
        sectionOf(i) == (CHOOSE q \in Range(getQuestions) : q.id = rows[i].question_id).section
    IN  [section \in {sectionOf(i) : i \in onBank} |->
            [ total |-> Cardinality({i \in onBank : sectionOf(i) = section}),
              correct |-> Cardinality({i \in onBank : sectionOf(i) = section
                                                      /\ rows[i].is_correct = 1}) ]]

\* the response of PATCH /api/sessions; sessionId 0 stands for a missing one
SessionCompletion(sessionId, rows, sessionRows) ==
    LET indexes == RowsOfSession(rows, sessionId)
        total == SqlCount(rows, indexes)
        correct == SqlSumCorrect(rows, indexes)
        absent == [total |-> 0, correct |-> SqlNull, incorrect |-> 0, bySection |-> <<>>]
    IN  IF sessionId = 0 THEN [status |-> 400, stats |-> absent]
        ELSE IF sessionId > sessionRows THEN [status |-> 404, stats |-> absent]
        ELSE [ status |-> 200,
               stats |-> [ total |-> total,
                           correct |-> correct,
                           incorrect |-> total - ToNumber(correct),
                           bySection |-> SectionStatsOf(rows, indexes) ] ]

\* PATCH /api/sessions: completed_at of the row is set; the attempts table
\* is only read
PatchSession(sessionId) ==
    LET res == SessionCompletion(sessionId, log, sessions)
    IN  /\ call' = [ kind |-> "session-complete", sessionId |-> sessionId,
                     status |-> res.status, completed |-> res.status = 200,
                     stats |-> res.stats ]
        /\ run' = <<>>
        /\ UNCHANGED <<questionsCache, log, sessions>>

\* the ids answered within and outside sessions: both questions and a Q code
SessionAnswerIds == {"Q1", "Q2", "QC-1"}

\* an attempt of the exam page carries the id of its session, others none
\* (0); the session row exists
AnswerInSessionStep ==
    \E questionId \in SessionAnswerIds, sessionId \in 0..sessions :
        \E selectedAnswer \in AnswersOf(questionId) :
            PostAttempt(questionId, selectedAnswer, sessionId, FALSE)

StartSessionStep == PostSession(Null, "zero")

\* completion of an existing session, of a missing id and of an unknown one
CompleteSessionStep == \E sessionId \in 0..(sessions + 1) : PatchSession(sessionId)

NextCompletion == AnswerInSessionStep \/ StartSessionStep \/ CompleteSessionStep

SpecCompletion == Init /\ [][NextCompletion]_vars

RECURSIVE SumTotals(_, _)
SumTotals(bySection, sections) ==
    IF sections = {} THEN 0
    ELSE LET s == CHOOSE x \in sections : TRUE
         IN  bySection[s].total + SumTotals(bySection, sections \ {s})

\* C15: for every existing session, including one without attempts,
\* session-complete reports total = the number of attempt records with that
\* sessionId, correct = the number of those that are correct, incorrect =
\* total - correct, all three non-negative integers with correct +
\* incorrect = total, and a per-section breakdown whose totals sum to the
\* number of the session's attempts on questions of the bank.
C15_CompletionTotals ==
    (call.kind = "session-complete" /\ call.sessionId \in 1..sessions) =>
        LET indexes == RowsOfSession(log, call.sessionId)
            correct == Cardinality({i \in indexes : log[i].is_correct = 1})
            onBank == {i \in indexes : getQuestionById(log[i].question_id) # Null}
        IN  /\ call.status = 200
            /\ call.stats.total = Cardinality(indexes)
            /\ call.stats.correct = SqlNumber(correct)
            /\ call.stats.incorrect = Cardinality(indexes) - correct
            /\ call.stats.incorrect >= 0
            /\ SumTotals(call.stats.bySection, DOMAIN call.stats.bySection)
                   = Cardinality(onBank)

\* the same for the sessions that have at least one attempt
C15_NonEmptySessions ==
    (call.kind = "session-complete" /\ call.sessionId \in 1..sessions
        /\ RowsOfSession(log, call.sessionId) # {}) =>
        LET indexes == RowsOfSession(log, call.sessionId)
            correct == Cardinality({i \in indexes : log[i].is_correct = 1})
            onBank == {i \in indexes : getQuestionById(log[i].question_id) # Null}
        IN  /\ call.status = 200
            /\ call.stats.total = Cardinality(indexes)
            /\ call.stats.correct = SqlNumber(correct)
            /\ call.stats.incorrect = Cardinality(indexes) - correct
            /\ call.stats.incorrect >= 0
            /\ SumTotals(call.stats.bySection, DOMAIN call.stats.bySection)
                   = Cardinality(onBank)

\* a session without attempts is completed: correct is null
C15_EmptySessionNull ==
    /\ call.kind = "session-complete" /\ call.status = 200
    /\ call.stats.total = 0 /\ call.stats.correct = SqlNull

--------------------------------------------------------------------------
(* All operations together: attempt-record with valid and invalid bodies,  *)
(* next-item, session-start and session-complete.                          *)

\* the request bodies of attempt-record: a question, a Q code, a missing
\* questionId, a missing selectedAnswer, an id of no catalog, an unknown Q
\* code, a phonetic letter
AttemptBodies ==
    { [questionId |-> q, selectedAnswer |-> a] :
        q \in {"Q1", "QC-1", "", "X", "QC-9", "AL-PL-A"}, a \in {"A", "CORRECT", ""} }

AnyAttemptStep ==
    \E body \in AttemptBodies, sessionId \in 0..sessions :
        PostAttempt(body.questionId, body.selectedAnswer, sessionId, FALSE)

AnyNextStep ==
    \/ FilteredNextStep
    \/ /\ Admitted("q-codes", Null, NoHints, Null, NoCursor)
       /\ GetQCodesNext({}, <<>>, NoCursor, Soon)

NextOperations ==
    AnyAttemptStep \/ AnyNextStep \/ StartSessionStep \/ CompleteSessionStep

SpecOperations == Init /\ [][NextOperations]_vars

\* the ids the catalogs of the attempts route hold
Recordable(questionId) ==
    \/ questionId \in Range(Ids(getQuestions))
    \/ questionId \in Range(Ids(getQCodes))

\* a step keeps every row of the log; an accepted attempt-record request
\* adds one row, of its item; any other step adds none
AppendOnlyStep ==
    /\ Len(log') >= Len(log)
    /\ SubSeq(log', 1, Len(log)) = log
    /\ IF call'.kind = "attempt" /\ call'.status = 200
       THEN /\ Len(log') = Len(log) + 1
            /\ log'[Len(log')].question_id = call'.questionId
            /\ log'[Len(log')].selected_answer = call'.selectedAnswer
       ELSE log' = log
    /\ (call'.kind = "attempt" /\ (call'.questionId = "" \/ call'.selectedAnswer = ""
                                     \/ ~Recordable(call'.questionId)))
           => call'.status # 200 /\ log' = log

\* C16: over every sequence of next-item, attempt-record, session-start and
\* session-complete operations, no attempt record is modified or removed; a
\* successful attempt-record request appends exactly one record and a
\* rejected one (missing questionId or selectedAnswer, unknown item id)
\* appends none.
C16_AppendOnly == [][AppendOnlyStep]_vars

\* an attempt-record request on an id of no catalog, rejected, on a log
\* that holds two records
C16_Witness ==
    /\ Len(log) = 2
    /\ call.kind = "attempt" /\ call.status = 404 /\ call.questionId = "X"

--------------------------------------------------------------------------
(* Self-assessment: the Q-code page and the alphabet page record           *)
(* 'CORRECT' or 'WRONG' for the item they present.                         *)

\* the ids the two pages present: every Q code, every letter of an alphabet
SelfAssessedIds ==
    Range(Ids(getQCodes)) \cup Range(Ids(getAlphabet("polish")))
                          \cup Range(Ids(getAlphabet("nato")))

\* handleSelfAssessment: POST /api/attempts { questionId: current item id,
\* selectedAnswer: isCorrect ? 'CORRECT' : 'WRONG' }
SelfAssessStep ==
    \E questionId \in SelfAssessedIds, isCorrect \in BOOLEAN :
        PostAttempt(questionId, IF isCorrect THEN "CORRECT" ELSE "WRONG", 0, FALSE)

NextSelfAssessed == SelfAssessStep

SpecSelfAssessed == Init /\ [][NextSelfAssessed]_vars

\* the request was accepted and its record is the last of the log
RecordedLast(c) ==
    /\ c.status = 200
    /\ c.isCorrect = (c.selectedAnswer = "CORRECT")
    /\ Len(log) > 0
    /\ log[Len(log)].question_id = c.questionId
    /\ log[Len(log)].is_correct = IF c.selectedAnswer = "CORRECT" THEN 1 ELSE 0
    /\ \A statsMap \in StatsMaps(log) : c.questionId \in DOMAIN statsMap

\* C17: an attempt-record request for a self-assessed item (a Q code or a
\* phonetic letter of the alphabet page) with selectedAnswer 'CORRECT' or
\* 'WRONG' is accepted: one record is appended with isCorrect =
\* (selectedAnswer = 'CORRECT') and the item has statistics.
C17_SelfAssessedAccepted ==
    (call.kind = "attempt" /\ call.questionId \in SelfAssessedIds
        /\ call.selectedAnswer \in {"CORRECT", "WRONG"}) => RecordedLast(call)

\* the same for the Q codes alone
C17_QCodesAccepted ==
    (call.kind = "attempt" /\ call.questionId \in Range(Ids(getQCodes))
        /\ call.selectedAnswer \in {"CORRECT", "WRONG"}) => RecordedLast(call)

\* the self-assessment of a letter is answered 'Question not found'
C17_LetterRejected ==
    /\ call.kind = "attempt" /\ call.questionId = "AL-PL-A"
    /\ call.selectedAnswer = "CORRECT" /\ call.status = 404
    /\ "AL-PL-A" \notin SeenIds(log)

--------------------------------------------------------------------------
(* Two next-item requests in flight.  A handler runs to completion once it *)
(* has started (it does not await), so two concurrent requests are handled *)
(* one after the other in either order; both carry the same parameters,    *)
(* and no attempt is recorded before both are answered.                    *)

\* the responses of a route to the request a call record holds
ResponsesTo(c, rows) ==
    IF c.route = "questions"
    THEN QuestionsNext(c.pool, c.exclude, c.recent, Null, c.shuffledOrder, c.currentIndex,
                       rows, c.now)
    ELSE QCodesNext(c.exclude, c.recent, c.shuffledOrder, c.currentIndex, rows, c.now)

\* a handler that keeps the item of the first response for that request
ResponsesInFlight_Reserving(c, rows) ==
    {res \in ResponsesTo(c, rows) :
        \A k \in 1..Len(c.responses) : res.item # c.responses[k].item}

\* what the handler can answer to a request while others with the same
\* parameters were answered before: it reads the attempts table only
ResponsesInFlight(c, rows) == ResponsesTo(c, rows)

\* the requests sent twice: on all questions, one section and the Q codes;
\* without hints and with the first id of the pool hinted; without cursor
\* and with a cursor
TwiceSent ==
    { [route |-> p.route, pool |-> p.pool, exclude |-> {}, recent |-> recent,
       shuffledOrder |-> cursor.shuffledOrder, currentIndex |-> cursor.currentIndex,
       now |-> Soon] :
        p \in { [route |-> "questions", pool |-> Null, ids |-> PoolIds("questions", Null)],
                [route |-> "questions", pool |-> "S1", ids |-> PoolIds("questions", "S1")],
                [route |-> "q-codes", pool |-> Null, ids |-> PoolIds("q-codes", Null)] },
        recent \in {<<>>, <<Hint("Q1", 0)>>, <<Hint("QC-1", 0)>>},
        cursor \in {NoCursor, [shuffledOrder |-> <<"Q2", "Q1">>, currentIndex |-> 0],
                    [shuffledOrder |-> <<"QC-2", "QC-1">>, currentIndex |-> 1]} }

\* the first of the two requests is answered
FirstInFlight ==
    /\ call.kind # "in-flight"
    /\ \E request \in TwiceSent :
         LET c == [request EXCEPT !.now = Soon] @@ [kind |-> "in-flight", responses |-> <<>>]
         IN  \E res \in ResponsesInFlight(c, log) :
               call' = [c EXCEPT !.responses = <<res>>]
    /\ run' = <<>>
    /\ UNCHANGED <<questionsCache, log, sessions>>

\* the second one is answered
SecondInFlight ==
    /\ call.kind = "in-flight" /\ Len(call.responses) = 1
    /\ \E res \in ResponsesInFlight(call, log) :
         call' = [call EXCEPT !.responses = Append(call.responses, res)]
    /\ UNCHANGED <<questionsCache, log, sessions, run>>

\* an attempt is recorded only when no request is unanswered
AnswerAfterBoth ==
    /\ call.kind = "in-flight" => Len(call.responses) = 2
    /\ AnswerBetweenQueries

NextInFlight == FirstInFlight \/ SecondInFlight \/ AnswerAfterBoth

SpecInFlight == Init /\ [][NextInFlight]_vars

\* the second request is answered with the item of the first
SameItemAgain ==
    /\ SecondInFlight
    /\ call'.responses[2].item = call.responses[1].item

--------------------------------------------------------------------------
(* Repeated next-item requests: the questions route as a function of its   *)
(* parameters, the attempts table, the clock and the values Math.random()  *)
(* returns.  As in the session model, Math.random() returns one of three   *)
(* values within one request.                                              *)

\* Math.random() * totalWeight
WeightedDraw(random, totalWeight) ==
    IF random = "zero" THEN 0 ELSE IF random = "half" THEN totalWeight \div 2
    ELSE totalWeight - 1

\* questions route, from the phase computation to the response
QuestionsSelectWith(availableQuestions, statsMap, excludeIds, forcePhase, shuffledOrderParam, currentIndexParam, random) ==
    LET questionIds == Ids(availableQuestions)
        phase == IF forcePhase # Null THEN forcePhase ELSE determinePhase(questionIds, statsMap)
        categories == categorizeQuestions(questionIds, statsMap)
        shuffledOrder ==
            IF shuffledOrderParam # <<>> THEN shuffledOrderParam
            ELSE FisherYates(categories["unseen"], DrawsOf(random, Len(categories["unseen"])))
        currentIndex == IF shuffledOrderParam # <<>> THEN currentIndexParam ELSE 0
        scan == CoverageScan(shuffledOrder, currentIndex, excludeIds, availableQuestions)
        unseenNotExcluded == NotIn(categories["unseen"], excludeIds)
        regenerated ==
            IF determinePhase(questionIds, statsMap) = "coverage" /\ Len(unseenNotExcluded) > 0
            THEN Find(availableQuestions,
                      unseenNotExcluded[DrawIndex(random, Len(unseenNotExcluded) - 1) + 1])
            ELSE Null
        afterCoverage ==
            IF phase # "coverage" THEN NothingSelected
            ELSE IF scan.selected # Null
                 THEN [selected |-> scan.selected, newShuffledOrder |-> shuffledOrder,
                       newCurrentIndex |-> scan.newCurrentIndex]
            ELSE [NothingSelected EXCEPT !.selected = regenerated]
        pool == WeightedPoolQuestions(questionIds, statsMap, excludeIds)
        weighted ==
            IF Len(pool) = 0 THEN Null
            ELSE Find(availableQuestions,
                      DrawFrom(pool, 1, WeightedDraw(random, SumWeights(pool))))
        selected ==
            IF phase = "drilling" \/ (phase = "coverage" /\ afterCoverage.selected = Null)
            THEN weighted ELSE afterCoverage.selected
    IN  IF phase = "mastered" \/ selected = Null
        THEN [status |-> 200, item |-> Null, phase |-> "mastered",
              stats |-> getStatsSummary(questionIds, statsMap),
              shuffledOrder |-> <<>>, currentIndex |-> -1]
        ELSE [status |-> 200, item |-> selected, phase |-> phase,
              stats |-> getStatsSummary(questionIds, statsMap),
              shuffledOrder |-> afterCoverage.newShuffledOrder,
              currentIndex |-> afterCoverage.newCurrentIndex]

\* GET /api/questions/next with the given values of Math.random()
QuestionsNextWith(section, excludeParam, recentAnswers, forcePhase, shuffledOrderParam, currentIndexParam, statsMap, now, random) ==
    LET availableQuestions ==
            IF section # Null
            THEN SelectSeq(getQuestions, LAMBDA q : q.section = section)
            ELSE getQuestions
        excludeIds == ExcludeIds(excludeParam, recentAnswers, now,
                                 COOLING_PERIOD_MS, COOLING_QUESTION_COUNT)
    IN  IF Len(availableQuestions) = 0 THEN ErrorResponse(400)
        ELSE QuestionsSelectWith(availableQuestions, statsMap, excludeIds, forcePhase,
                                 shuffledOrderParam, currentIndexParam, random)

\* the tables and the question cache after a next-item request: the route
\* prepares SELECT statements only
\* a route that records the request in the attempts table
ReadOnly_Logging ==
    /\ log' = IF Len(log) < MaxLog
              THEN Append(log, [ question_id |-> "Q1", session_id |-> 0,
                                 selected_answer |-> "B", is_correct |-> 0,
                                 created_at |-> LastCreatedAt(log) + 1 ])
              ELSE log
    /\ UNCHANGED <<questionsCache, sessions>>

ReadOnly ==
    UNCHANGED <<questionsCache, log, sessions>>

\* the response to the request recorded in c, on the current tables
ResponsesNow(c) ==
    { QuestionsNextWith(c.pool, c.exclude, c.recent, c.forcePhase, c.shuffledOrder,
                        c.currentIndex, statsMap, c.now, c.random)
      : statsMap \in StatsMaps(log) }

\* a request with its parameters, clock and random values, after an
\* answer or on the empty table
DrawnRequest ==
    /\ call.kind # "drawn"
    /\ \E section \in Sections, forcePhase \in {Null, "coverage", "drilling"},
       random \in RandomValues :
        LET ids == IF PoolIds("questions", section) = <<>> THEN PoolIds("questions", Null)
                   ELSE PoolIds("questions", section)
        IN  \E h \in CoolingHints(ids, COOLING_PERIOD_MS, COOLING_QUESTION_COUNT),
               cursor \in CursorParams(ids) :
                LET request == [ kind |-> "drawn", route |-> "questions", pool |-> section,
                                 exclude |-> h.exclude, recent |-> h.recent,
                                 forcePhase |-> forcePhase,
                                 shuffledOrder |-> cursor.shuffledOrder,
                                 currentIndex |-> cursor.currentIndex,
                                 now |-> h.now, random |-> random ]
                IN  /\ \E res \in ResponsesNow(request) :
                          call' = [ request |-> request, kind |-> "drawn", requests |-> 1,
                                    first |-> res, res |-> res ]
                    /\ run' = <<>>
                    /\ ReadOnly

\* the same request once more: same parameters, clock and random values
RepeatedRequest ==
    /\ call.kind = "drawn" /\ call.requests < MaxRun
    /\ \E res \in ResponsesNow(call.request) :
          call' = [call EXCEPT !.requests = call.requests + 1, !.res = res]
    /\ run' = <<>>
    /\ ReadOnly

\* answers on the two questions of the bank between the requests
AnswerBetweenRequests ==
    \E questionId \in {"Q1", "Q2"}, selectedAnswer \in {"A", "B"} :
        PostAttempt(questionId, selectedAnswer, 0, FALSE)

NextRepeat == AnswerBetweenRequests \/ DrawnRequest \/ RepeatedRequest

SpecRepeat == Init /\ [][NextRepeat]_vars

C29_NextItemReadsOnly ==
    [][call'.kind = "next" => (log' = log /\ sessions' = sessions)]_vars

\* every response of a request with given random values is one of the
\* responses of the route over all random outcomes
C29_DrawnIsAnOutcome ==
    call.kind = "drawn" =>
        call.res \in QuestionsNext(call.request.pool, call.request.exclude,
                                   call.request.recent, call.request.forcePhase,
                                   call.request.shuffledOrder, call.request.currentIndex,
                                   log, call.request.now)

--------------------------------------------------------------------------
(* The learner's loop on the study, Q-code and alphabet pages: the page    *)
(* loads an item with the cursor and the recency list it holds, the        *)
(* learner answers it, the page records the answer and loads the next one. *)
(* The loop is followed until a response reports a phase other than        *)
(* coverage or no item.                                                    *)

\* the pages and the pools they run on
LearnerPages ==
    { [route |-> "questions", pool |-> Null], [route |-> "questions", pool |-> "S1"],
      [route |-> "q-codes", pool |-> Null],
      [route |-> "alphabet", pool |-> "polish"], [route |-> "alphabet", pool |-> "nato"] }

\* the attempts table when the page is opened: empty, or one earlier answer
EarlierLogs ==
    { <<>> } \cup
    { << [ question_id |-> id, session_id |-> 0, selected_answer |-> "A",
           is_correct |-> 1, created_at |-> 1 ] >> : id \in {"Q1", "QC-1"} }

\* the clock when the page is opened
Opened == 100

InitLearner ==
    /\ questionsCache = StudyBank
    /\ log \in EarlierLogs
    /\ sessions = 0
    /\ run = <<>>
    /\ \E page \in LearnerPages :
          call = [ kind |-> "page", route |-> page.route, pool |-> page.pool,
                   stage |-> "load", shuffledOrder |-> <<>>, currentIndex |-> 0,
                   recent |-> <<>>, item |-> Null, phase |-> "coverage",
                   shown |-> {}, clock |-> Opened ]

\* the responses to the request the page sends: the study page sends the
\* recency list, the Q-code and alphabet pages also send its ids as exclude
PageResponses(c) ==
    IF c.route = "questions"
    THEN QuestionsNext(c.pool, {}, c.recent, Null, c.shuffledOrder, c.currentIndex,
                       log, c.clock)
    ELSE IF c.route = "q-codes"
    THEN QCodesNext(HintIds(c.recent), c.recent, c.shuffledOrder, c.currentIndex,
                    log, c.clock)
    ELSE AlphabetNext(c.pool, HintIds(c.recent), c.recent, c.shuffledOrder,
                      c.currentIndex, log, c.clock)

\* loadNextQuestion, loadNextQCode, loadNextLetter: the item and the phase
\* of the response are shown, its cursor is stored when it carries one
LoadNextItem ==
    /\ call.kind = "page" /\ call.stage = "load"
    /\ \E res \in PageResponses(call) :
          call' = [call EXCEPT
                     !.item = res.item,
                     !.phase = res.phase,
                     !.shuffledOrder = IF res.shuffledOrder # <<>> THEN res.shuffledOrder
                                       ELSE call.shuffledOrder,
                     !.currentIndex = IF res.currentIndex # -1 THEN res.currentIndex
                                      ELSE call.currentIndex,
                     !.shown = IF res.item # Null THEN call.shown \cup {res.item}
                               ELSE call.shown,
                     !.stage = IF res.item # Null /\ res.phase = "coverage"
                               THEN "answer" ELSE "done"]
    /\ UNCHANGED <<questionsCache, log, sessions, run>>

\* the cooling period of a route
CoolingPeriodOfRoute(route) ==
    IF route = "questions" THEN COOLING_PERIOD_MS
    ELSE IF route = "q-codes" THEN QCODE_COOLING_PERIOD_MS
    ELSE LETTER_COOLING_PERIOD_MS

\* .slice(-20)
LastTwenty(xs) == IF Len(xs) <= 20 THEN xs ELSE SubSeq(xs, Len(xs) - 19, Len(xs))

\* the answers the learner can give to the item shown
LearnerAnswers(c) == IF c.route = "questions" THEN {"A", "B"} ELSE {"CORRECT", "WRONG"}

\* handleAnswerClick and handleSelfAssessment: the answer is posted; when
\* it is recorded it is appended to the recency list with the time of the
\* click and the next item is loaded; when the Q-code or alphabet page gets
\* an error response it shows the error and loads nothing
AnswerShownItem ==
    /\ call.kind = "page" /\ call.stage = "answer"
    /\ \E selectedAnswer \in LearnerAnswers(call),
          elapsed \in {Soon, Later(CoolingPeriodOfRoute(call.route))} :
          LET outcome == AttemptOutcome(call.item, selectedAnswer)
              now == call.clock + elapsed
              row == [ question_id |-> call.item, session_id |-> 0,
                       selected_answer |-> selectedAnswer,
                       is_correct |-> IF outcome.isCorrect THEN 1 ELSE 0,
                       created_at |-> LastCreatedAt(log) + 1 ]
          IN  /\ outcome.status = 200 => Len(log) < MaxLog
              /\ log' = IF outcome.status = 200 THEN Append(log, row) ELSE log
              /\ call' = IF outcome.status = 200
                         THEN [call EXCEPT
                                 !.clock = now,
                                 !.recent = LastTwenty(Append(call.recent,
                                               [questionId |-> call.item,
                                                answeredAt |-> now])),
                                 !.stage = "load"]
                         ELSE [call EXCEPT
                                 !.clock = now,
                                 !.stage = IF call.route = "questions" THEN "load"
                                           ELSE "failed"]
    /\ UNCHANGED <<questionsCache, sessions, run>>

NextLearner == LoadNextItem \/ AnswerShownItem

\* the page issues its request and the learner answers whenever they can
SpecLearner == InitLearner /\ [][NextLearner]_vars /\ WF_vars(NextLearner)

--------------------------------------------------------------------------
(* Longer histories of the two questions of the bank, for the levels that  *)
(* need three attempts and more.                                           *)

MaxHistory == 5

\* POST /api/attempts from the study page, on a table of up to MaxHistory rows
AnswerOnHistory ==
    \E questionId \in {"Q1", "Q2"}, selectedAnswer \in {"A", "B"} :
        LET outcome == AttemptOutcome(questionId, selectedAnswer)
            row == [ question_id |-> questionId, session_id |-> 0,
                     selected_answer |-> selectedAnswer,
                     is_correct |-> IF outcome.isCorrect THEN 1 ELSE 0,
                     created_at |-> LastCreatedAt(log) + 1 ]
        IN  /\ Len(log) < MaxHistory
            /\ outcome.status = 200
            /\ log' = Append(log, row)
            /\ call' = [ kind |-> "attempt", questionId |-> questionId,
                         selectedAnswer |-> selectedAnswer, sessionId |-> 0,
                         status |-> outcome.status, isCorrect |-> outcome.isCorrect ]
            /\ run' = <<>>
            /\ UNCHANGED <<questionsCache, sessions>>

NextHistory == AnswerOnHistory

SpecHistory == Init /\ [][NextHistory]_vars

\* the pools of the bank that hold an item
PoolsHolding(qId) ==
    {ids \in {PoolIds("questions", Null), PoolIds("questions", "S1"),
              PoolIds("questions", "S2")} : qId \in Range(ids)}

\* an item with a wrong attempt in the table is not classified mastered,
\* and no pool that holds it is in phase mastered
WrongNeverMastered ==
    \A qId \in SeenIds(log) :
        (\E i \in RowsOf(log, qId) : log[i].is_correct = 0) =>
            \A statsMap \in StatsMaps(log) :
                /\ statsMap[qId].confidenceLevel # "mastered"
                /\ \A ids \in PoolsHolding(qId) : determinePhase(ids, statsMap) # "mastered"

\* a wrong attempt on an item of a pool in phase mastered puts the pool in
\* phase drilling
WrongLeavesMastered ==
    (/\ Len(log') = Len(log) + 1
     /\ log'[Len(log')].is_correct = 0)
        => \A ids \in PoolsHolding(log'[Len(log')].question_id) :
               (\E before \in StatsMaps(log) : determinePhase(ids, before) = "mastered")
                   => \A after \in StatsMaps(log') : determinePhase(ids, after) = "drilling"

\* C32: once an item has one wrong attempt in the log it is never
\* classified mastered again, whatever is answered afterwards; a pool that
\* holds such an item never reaches phase mastered, and the mastered phase
\* is not absorbing: a wrong attempt on a mastered pool moves it back to
\* drilling.
C32_WrongAttemptBarsMastery == []WrongNeverMastered /\ [][WrongLeavesMastered]_vars

\* three correct answers on the only question of section S1, then a wrong
\* one: the section was mastered and is drilling
C32_Witness ==
    /\ Len(log) = 4 /\ \A i \in 1..4 : log[i].question_id = "Q1"
    /\ \A i \in 1..3 : log[i].is_correct = 1
    /\ log[4].is_correct = 0
    /\ \A statsMap \in StatsMaps(SubSeq(log, 1, 3)) :
           determinePhase(PoolIds("questions", "S1"), statsMap) = "mastered"
    /\ \A statsMap \in StatsMaps(log) :
           /\ determinePhase(PoolIds("questions", "S1"), statsMap) = "drilling"
           /\ statsMap["Q1"].confidenceLevel = "weak"

\* a wrong answer followed by four correct ones: 80%, learning, not mastered
C32_LearningAfterEarlyWrong ==
    /\ Len(log) = 5 /\ \A i \in 1..5 : log[i].question_id = "Q1"
    /\ log[1].is_correct = 0 /\ \A i \in 2..5 : log[i].is_correct = 1
    /\ \A statsMap \in StatsMaps(log) : statsMap["Q1"].confidenceLevel = "learning"

--------------------------------------------------------------------------
(* Requests whose cursor, exclude list and cooling hints name items of     *)
(* other pools and ids that are in no catalog.                             *)

\* ids of every catalog, and one that is in none
CatalogIds == {"Q1", "Q2", "QC-1", "AL-PL-A", "AL-NATO-A", Foreign}

\* orders that start with an id outside the pool, or hold nothing else
OrdersNaming(ids) ==
    { <<o>> \o ids : o \in CatalogIds \ Range(ids) }
    \cup { <<o>> : o \in CatalogIds \ Range(ids) }

\* no hint, or an id outside the pool hinted and excluded
HintsNaming(ids) ==
    { NoHints } \cup
    { [exclude |-> {o}, recent |-> <<Hint(o, 0)>>, now |-> Soon] :
        o \in CatalogIds \ Range(ids) }

\* the pools requested: all questions, one section, the Q codes, both alphabets
RequestedPools ==
    { [route |-> "questions", pool |-> Null], [route |-> "questions", pool |-> "S1"],
      [route |-> "q-codes", pool |-> Null],
      [route |-> "alphabet", pool |-> "polish"], [route |-> "alphabet", pool |-> "nato"] }

\* a request is sent first or after an answer
RequestNamingOthers ==
    /\ call.kind # "next"
    /\ \E p \in RequestedPools :
         LET ids == PoolIds(p.route, p.pool)
         IN  \E h \in HintsNaming(ids), shuffledOrder \in OrdersNaming(ids) :
               LET cursor == [shuffledOrder |-> shuffledOrder, currentIndex |-> 0]
               IN  IF p.route = "questions"
                   THEN GetQuestionsNext(p.pool, h.exclude, h.recent, Null, cursor, h.now)
                   ELSE IF p.route = "q-codes"
                   THEN GetQCodesNext(h.exclude, h.recent, cursor, h.now)
                   ELSE GetAlphabetNext(p.pool, h.exclude, h.recent, cursor, h.now)

NextForeign == AnswerBetweenQueries \/ RequestNamingOthers

SpecForeign == Init /\ [][NextForeign]_vars

--------------------------------------------------------------------------
(* The hint generator (scripts/generate-hints): a command-line run sends   *)
(* the questions that are not completed yet to the provider in batches,    *)
(* resubmits the failed ones, and records the completed and the failed ids *)
(* in data/hints-progress.json. The texts of the hints are left out: a     *)
(* hint is identified with the id of its question. The batches of a round  *)
(* are followed one after another; their provider calls are independent    *)
(* and their results are aggregated in batch order once all have returned. *)

\* the runs of the generator that are followed
MaxGeneratorRuns == 2

\* the items of a provider response that are followed
MaxItems == 2

BATCH_SIZE == 25

\* maxRetries: number = 3
DefaultMaxRetries == 3

\* --parallel, 4 when it is not given
DefaultParallel == 4

\* the ids the items of a response carry, as the provider writes them
ResponseIds == {"Q1", "1", "Q2", "Q-2", "Q7"}

\* normalizeId: 'Q' and the first run of digits of the id
normalizeId(id) ==
    IF id \in {"Q1", "1"} THEN "Q1"
    ELSE IF id \in {"Q2", "Q-2"} THEN "Q2"
    ELSE id

\* an item of the parsed array: its id, and whether its hint and its
\* explanation are strings of the required lengths
ResponseItems == [id : ResponseIds, valid : BOOLEAN]

\* the parsed arrays of up to MaxItems items
ParsedArrays ==
    UNION { [1..n -> ResponseItems] : n \in 0..MaxItems }

\* parseGeminiResponse on an output that holds a JSON array: the valid
\* items are successful under their normalized ids, the expected ids that
\* no valid item names are failed
parseGeminiResponse(parsed, expectedIds) ==
    LET valid == SelectSeq(parsed, LAMBDA item : item.valid)
        successful == [i \in 1..Len(valid) |-> normalizeId(valid[i].id)]
        normalized == [i \in 1..Len(expectedIds) |-> normalizeId(expectedIds[i])]
    IN  [ successful |-> successful,
          failed |-> SelectSeq(normalized, LAMBDA id : id \notin Range(successful)) ]

\* generateBatch: the result of parsing the output, or every expected id
\* failed when the command fails, times out or prints no array
generateBatch(questions) ==
    { parseGeminiResponse(parsed, questions) : parsed \in ParsedArrays }
        \cup { [successful |-> <<>>, failed |-> questions] }

\* questions.filter((q) => lastResult.failed.includes(q.id)), mutated: the
\* whole batch is submitted again
ToProcess_All(questions, failed) ==
    questions

\* questions.filter((q) => lastResult.failed.includes(q.id))
ToProcess(questions, failed) ==
    SelectSeq(questions, LAMBDA id : id \in Range(failed))

\* chunkArray
chunkArray(array, size) ==
    [ k \in 1..((Len(array) + size - 1) \div size) |->
        SubSeq(array, (k - 1) * size + 1, Min(k * size, Len(array))) ]

\* the progress a run starts from when there is no file, or no --resume
FreshProgress ==
    [ completedIds |-> <<>>, failedIds |-> <<>> ]

\* loadProgress: the content of the file when it exists
loadProgress(file) ==
    IF file.exists
    THEN [ completedIds |-> file.completedIds, failedIds |-> file.failedIds ]
    ELSE FreshProgress

\* if (!list.includes(id)) list.push(id), for the ids from position i on
RECURSIVE PushNew(_, _, _)
PushNew(list, ids, i) ==
    IF i > Len(ids) THEN list
    ELSE PushNew(IF ids[i] \in Range(list) THEN list ELSE Append(list, ids[i]),
                 ids, i + 1)

\* the aggregation of the results of a round into the progress
RECURSIVE Aggregate(_, _, _)
Aggregate(progress, roundResults, i) ==
    IF i > Len(roundResults) THEN progress
    ELSE Aggregate(
            [ completedIds |-> PushNew(progress.completedIds,
                                       roundResults[i].successful, 1),
              failedIds |-> PushNew(progress.failedIds, roundResults[i].failed, 1) ],
            roundResults, i + 1)

\* saveProgress: the file written from the progress
saveProgress(progress) ==
    [ exists |-> TRUE, completedIds |-> progress.completedIds,
      failedIds |-> progress.failedIds ]

\* the success rate saveProgress stores, as numerator and denominator
successRate(progress) ==
    << Len(progress.completedIds),
       Len(progress.completedIds) + Len(progress.failedIds) >>

\* before the first run: no progress file
InitGenerator ==
    /\ questionsCache = StudyBank
    /\ log = <<>>
    /\ sessions = 0
    /\ run = <<>>
    /\ call = [ kind |-> "generate", stage |-> "idle", runs |-> 0,
                file |-> [exists |-> FALSE, completedIds |-> <<>>, failedIds |-> <<>>],
                progress |-> FreshProgress, batches |-> <<>>, batchIndex |-> 0,
                results |-> <<>>, attempts |-> 0, successful |-> <<>>,
                failed |-> <<>>, reports |-> <<>>, returned |-> FALSE ]

\* main up to the first batch: the run ends at once when the command line
\* tool is missing or when every question is completed
StartGenerator ==
    /\ call.kind = "generate" /\ call.stage = "idle"
    /\ call.runs < MaxGeneratorRuns
    /\ \E geminiInstalled \in BOOLEAN, resume \in BOOLEAN, dryRun \in BOOLEAN :
          LET progress == IF resume THEN loadProgress(call.file) ELSE FreshProgress
              questionsToProcess ==
                  SelectSeq(Ids(questionsCache),
                            LAMBDA id : id \notin Range(progress.completedIds))
              questionsForRun == IF dryRun THEN Slice(questionsToProcess, BATCH_SIZE)
                                 ELSE questionsToProcess
              batches == chunkArray(questionsForRun, BATCH_SIZE)
          IN  call' =
                 IF ~geminiInstalled
                 THEN [call EXCEPT !.runs = @ + 1]
                 ELSE IF questionsToProcess = <<>>
                 THEN [call EXCEPT !.runs = @ + 1, !.progress = progress]
                 ELSE [call EXCEPT
                         !.stage = "batch", !.progress = progress,
                         !.batches = batches, !.batchIndex = 1, !.results = <<>>,
                         !.attempts = 0, !.successful = <<>>, !.failed = batches[1],
                         !.reports = <<>>, !.returned = FALSE]
    /\ UNCHANGED <<questionsCache, log, sessions, run>>

\* one turn of the loop of processBatchWithRetry: the questions that are
\* still failed are submitted, the successful hints are added to the
\* earlier ones and the failed ids are replaced
ProviderCall ==
    /\ call.kind = "generate" /\ call.stage = "batch"
    /\ call.attempts < DefaultMaxRetries /\ call.failed # <<>>
    /\ LET toProcess == ToProcess(call.batches[call.batchIndex], call.failed)
       IN  \E result \in generateBatch(toProcess) :
              call' = [call EXCEPT
                         !.attempts = @ + 1,
                         !.successful = @ \o result.successful,
                         !.failed = result.failed,
                         !.reports = Append(@, [ submitted |-> toProcess,
                                                 successful |-> result.successful,
                                                 failed |-> result.failed ])]
    /\ UNCHANGED <<questionsCache, log, sessions, run>>

\* processBatchWithRetry returns; after the last batch of a round the
\* results of the round are aggregated and the progress is saved, and the
\* run ends after the last round
ReturnBatch ==
    /\ call.kind = "generate" /\ call.stage = "batch"
    /\ ~(call.attempts < DefaultMaxRetries /\ call.failed # <<>>)
    /\ LET results == Append(call.results,
                             [successful |-> call.successful, failed |-> call.failed])
           lastOfRun == call.batchIndex = Len(call.batches)
           lastOfRound == lastOfRun \/ call.batchIndex % DefaultParallel = 0
           progress == IF lastOfRound THEN Aggregate(call.progress, results, 1)
                       ELSE call.progress
       IN  call' =
              IF lastOfRun
              THEN [call EXCEPT
                      !.stage = "idle", !.runs = @ + 1, !.returned = TRUE,
                      !.results = <<>>, !.progress = progress,
                      !.file = saveProgress(progress)]
              ELSE [call EXCEPT
                      !.batchIndex = @ + 1,
                      !.results = IF lastOfRound THEN <<>> ELSE results,
                      !.progress = progress,
                      !.file = IF lastOfRound THEN saveProgress(progress) ELSE @,
                      !.attempts = 0, !.successful = <<>>,
                      !.failed = call.batches[call.batchIndex + 1],
                      !.reports = <<>>]
    /\ UNCHANGED <<questionsCache, log, sessions, run>>

NextGenerator == StartGenerator \/ ProviderCall \/ ReturnBatch

SpecGenerator == InitGenerator /\ [][NextGenerator]_vars

\* the batch processBatchWithRetry is working on, or has returned from
BatchOf(c) == c.batches[c.batchIndex]

\* C37: processBatchWithRetry calls the provider at most maxRetries (3)
\* times; it makes no call after a call that left no id failed; the first
\* call submits the batch and every later call submits exactly the
\* questions of the batch that failed in the call before it; and when every
\* call reported each submitted id as successful or as failed, every
\* question of the batch is returned in exactly one of successful and
\* failed.
C37_RetryLoop ==
    (call.kind = "generate" /\ (call.stage = "batch" \/ call.returned)) =>
        LET c == call
            before(k) == IF k = 1 THEN BatchOf(c) ELSE c.reports[k - 1].failed
            covered == \A k \in 1..Len(c.reports) :
                          Range(c.reports[k].submitted) \subseteq
                             Range(c.reports[k].successful) \cup Range(c.reports[k].failed)
        IN  /\ Len(c.reports) <= DefaultMaxRetries
            /\ c.attempts = Len(c.reports)
            /\ \A k \in 1..Len(c.reports) :
                  /\ before(k) # <<>>
                  /\ c.reports[k].submitted =
                        SelectSeq(BatchOf(c), LAMBDA id : id \in Range(before(k)))
            /\ c.returned =>
                  /\ Len(c.reports) = DefaultMaxRetries \/ c.failed = <<>>
                  /\ covered =>
                        \A id \in Range(BatchOf(c)) :
                           (id \in Range(c.successful)) # (id \in Range(c.failed))

\* a batch returned after three calls: one question succeeded in a retry,
\* the other failed in every call
C37_Witness ==
    /\ call.kind = "generate" /\ call.returned
    /\ Len(call.reports) = DefaultMaxRetries
    /\ call.reports[1].successful = <<>>
    /\ call.reports[2].submitted = <<"Q1", "Q2">>
    /\ call.reports[3].submitted = <<"Q2">>
    /\ "Q1" \in Range(call.successful)
    /\ call.failed = <<"Q2">>

\* a batch returned after one call that left no id failed
C37_StopsEarly ==
    /\ call.kind = "generate" /\ call.returned
    /\ Len(call.reports) = 1
    /\ call.failed = <<>>

\* C38: in the progress file the completed and the failed ids are disjoint
\* after every run: a question that failed in an earlier run and succeeds
\* in a run with --resume is not listed as failed any more, and the success
\* rate counts every listed question once.
C38_CompletedAndFailedDisjoint ==
    call.kind = "generate" =>
        /\ Range(call.file.completedIds) \cap Range(call.file.failedIds) = {}
        /\ successRate(call.file)[2] =
              Cardinality(Range(call.file.completedIds) \cup Range(call.file.failedIds))

\* the file after a second run in which the question that failed before
\* succeeded: it is listed as completed and as failed
C38_SucceededStillFailed ==
    /\ call.kind = "generate" /\ call.stage = "idle" /\ call.runs = 2
    /\ "Q1" \in Range(call.file.completedIds)
    /\ "Q1" \in Range(call.file.failedIds)

--------------------------------------------------------------------------
(* Properties of the next-item routes, stated on the last call *)

\* the pool of a next-item call, as ids in catalog order
PoolOf(c) == PoolIds(c.route, c.pool)

\* the ids of a pool that the attempts table classifies other than mastered
NonMastered(ids, statsMap) ==
    SelectSeq(ids, LAMBDA id : LevelOf(id, statsMap) # "mastered")

\* the ids of a pool without an attempt record
Unseen(ids, rows) == SelectSeq(ids, LAMBDA id : RowsOf(rows, id) = {})

\* a next-item call that was answered with a selection result (status 200)
Answered(c) == c.kind = "next" /\ c.res.status = 200

\* the cooling constants of the route of a call
CoolingPeriodOf(c) ==
    IF c.route = "questions" THEN COOLING_PERIOD_MS
    ELSE IF c.route = "q-codes" THEN QCODE_COOLING_PERIOD_MS
    ELSE LETTER_COOLING_PERIOD_MS

CoolingCountOf(c) ==
    IF c.route = "questions" THEN COOLING_QUESTION_COUNT
    ELSE IF c.route = "q-codes" THEN QCODE_COOLING_QUESTION_COUNT
    ELSE COOLING_LETTER_COUNT

\* the exclusion set the route computes for the call
CoolingSet(c) ==
    ExcludeIds(c.exclude, c.recent, c.now, CoolingPeriodOf(c), CoolingCountOf(c))

\* C2: every next-item request (exam questions, Q codes, letters) on a pool
\* with at least one item not classified mastered is answered with a
\* non-null item, whatever cooling hints, exclude list and cursor it
\* carries (requests without a phase parameter).
C2_ItemWhileNonMastered ==
    (/\ Answered(call)
     /\ call.forcePhase = Null
     /\ \A statsMap \in StatsMaps(log) : Len(NonMastered(PoolOf(call), statsMap)) > 0)
        => call.res.item # Null

\* the same on the Q-code and alphabet routes alone
C2_SmallPools ==
    (/\ Answered(call)
     /\ call.route \in {"q-codes", "alphabet"}
     /\ \A statsMap \in StatsMaps(log) : Len(NonMastered(PoolOf(call), statsMap)) > 0)
        => call.res.item # Null

\* the items returned by the calls of the current run
RunItems == [i \in 1..Len(run) |-> run[i].item]

\* the current run started without a cursor, carries no cooling hint, no
\* exclude list and no phase parameter, on a pool whose items are all unseen
CoverageRun ==
    /\ Answered(call)
    /\ call.forcePhase = Null /\ call.recent = <<>> /\ call.exclude = {}
    /\ run[1].shuffledOrder = <<>>
    /\ Unseen(PoolOf(call), log) = PoolOf(call)

\* C3: coverage completeness.  On a pool of N items that are all unseen,
\* with no cooling hints and no cursor on the first call, the first N calls
\* of a run in which each call passes the cursor the previous one returned
\* return pairwise distinct items of the pool, and N such calls return
\* every item of the pool.
C3_CoverageCompleteness ==
    (CoverageRun /\ Len(run) <= Len(PoolOf(call))) =>
        /\ NoDuplicates(RunItems)
        /\ Range(RunItems) \subseteq Range(PoolOf(call))
        /\ Len(run) = Len(PoolOf(call)) => Range(RunItems) = Range(PoolOf(call))

\* three calls on the three unseen letters of an alphabet, in an order
\* that is not the catalog's
C3_Witness ==
    /\ CoverageRun /\ call.route = "alphabet" /\ call.pool = "nato"
    /\ Len(run) = 3
    /\ RunItems = <<"AL-NATO-C", "AL-NATO-A", "AL-NATO-B">>

\* the hints of a call that were answered after hint i
LaterHints(c, i) ==
    {k \in 1..Len(c.recent) : c.recent[k].answeredAt > c.recent[i].answeredAt}

\* hint i is less than a cooling period old, or among the coolingCount
\* most recent hints
StillCooling(c, i) ==
    \/ c.now - c.recent[i].answeredAt < CoolingPeriodOf(c)
    \/ Cardinality(LaterHints(c, i)) < CoolingCountOf(c)

\* hint i is the last answer of its item, a cooling period or more has
\* elapsed since, and coolingCount further distinct items were answered
CooledOff(c, i) ==
    /\ c.now - c.recent[i].answeredAt >= CoolingPeriodOf(c)
    /\ \A k \in LaterHints(c, i) : c.recent[k].questionId # c.recent[i].questionId
    /\ Cardinality({c.recent[k].questionId : k \in LaterHints(c, i)}) >= CoolingCountOf(c)

\* an answered item that the hints report as still cooling is returned
\* only when no non-mastered item of the pool is outside the cooling set
C5_NotReturnedWhileCooling ==
    Answered(call) =>
        \A i \in 1..Len(call.recent) :
            (/\ call.recent[i].questionId = call.res.item
             /\ call.res.item \in SeenIds(log)
             /\ StillCooling(call, i))
                => \A statsMap \in StatsMaps(log) :
                       Range(NonMastered(PoolOf(call), statsMap)) \subseteq CoolingSet(call)

\* once the cooling period has elapsed and coolingCount further distinct
\* items have been answered, the item is not excluded from selection
C5_SelectableAgain ==
    call.kind = "next" =>
        \A i \in 1..Len(call.recent) :
            CooledOff(call, i) => call.recent[i].questionId \notin CoolingSet(call)

\* the second half for requests without an exclude parameter, as the study
\* page sends them
C5_SelectableWithoutExclude ==
    (call.kind = "next" /\ call.exclude = {}) => C5_SelectableAgain

\* C5: cooling correctness.  An item answered at time T and reported in
\* the recency hints is not returned before T + coolingPeriodMs, nor while
\* it is among the coolingCount most recently answered items, as long as
\* another non-mastered item of the pool is outside the cooling set; once
\* coolingPeriodMs has elapsed and coolingCount further distinct items
\* have been answered, it is selectable again.
C5_CoolingCorrectness == C5_NotReturnedWhileCooling /\ C5_SelectableAgain

\* C7: the phase field of a next-item response is the phase detector's
\* result for the current attempt log and the requested pool (stated for
\* the requests that carry no phase parameter): in particular it is not
\* mastered while some pool item is not mastered, and not coverage while
\* no pool item is unseen.
C7_PhaseIsDetectorResult ==
    (Answered(call) /\ call.forcePhase = Null) =>
        \E statsMap \in StatsMaps(log) :
            call.res.phase = determinePhase(PoolOf(call), statsMap)

\* every item of the pool of the call is classified mastered
AllMastered(c) ==
    \A statsMap \in StatsMaps(log) : Len(NonMastered(PoolOf(c), statsMap)) = 0

\* the item of the response is classified mastered
ReturnedMastered(c) ==
    /\ c.res.item # Null
    /\ \E statsMap \in StatsMaps(log) : LevelOf(c.res.item, statsMap) = "mastered"

\* the run of the call began without a cursor: every cursor it carries was
\* generated by the server from the current attempts table
ServerCursor == run[1].shuffledOrder = <<>>

Eligible(c) ==
    {id \in Range(PoolOf(c)) \ CoolingSet(c) :
        \A statsMap \in StatsMaps(log) : LevelOf(id, statsMap) # "mastered"}

EligibleUnseen(c) == Range(Unseen(PoolOf(c), log)) \ CoolingSet(c)

ExhaustedCursor(c) ==
    c.shuffledOrder # <<>> /\ c.currentIndex >= Len(c.shuffledOrder)

\* C10: when the carried-forward cursor is exhausted (currentIndex has
\* reached the length of shuffledOrder) while the pool still contains
\* unseen items, with no cooling and no new attempt recorded, the call
\* still returns an item, an unseen one, and does not report phase
\* mastered.
C10_ExhaustedCursor ==
    (/\ Answered(call)
     /\ call.forcePhase \in {Null, "coverage"}
     /\ ExhaustedCursor(call)
     /\ call.recent = <<>> /\ call.exclude = {}
     /\ Len(Unseen(PoolOf(call), log)) > 0)
        => /\ call.res.item \in Range(Unseen(PoolOf(call), log))
           /\ call.res.phase # "mastered"

\* the second call on two questions of which only Q2 is unseen: the
\* server-made order of one id is exhausted after the first call
C10_Witness ==
    /\ Answered(call) /\ call.forcePhase = Null
    /\ Len(run) = 2 /\ ServerCursor
    /\ ExhaustedCursor(call)
    /\ call.recent = <<>> /\ call.exclude = {}
    /\ call.res.item = "Q2" /\ call.res.phase = "coverage"

\* the entries of the pool of a call
PoolItems(c) == [i \in 1..Len(PoolOf(c)) |-> [id |-> PoolOf(c)[i]]]

\* the scan over the cursor of a call yields no candidate: the order the
\* call carried holds no pool item outside the cooling set from its index
\* on, or, without a carried order, every unseen item is in the cooling set
ScanYieldsNothing(c) ==
    IF c.shuffledOrder # <<>>
    THEN CoverageScan(c.shuffledOrder, c.currentIndex, CoolingSet(c), PoolItems(c)).selected
             = Null
    ELSE Range(Unseen(PoolOf(c), log)) \subseteq CoolingSet(c)

\* a call in the coverage phase whose scan yields nothing while the pool
\* has an unseen item
CoverageExhausted(c) ==
    /\ Answered(c)
    /\ c.forcePhase \in {Null, "coverage"}
    /\ Len(Unseen(PoolOf(c), log)) > 0
    /\ ScanYieldsNothing(c)

\* the item returned is unseen, and outside the cooling set when an unseen
\* item outside the cooling set exists
UnseenReturned(c) ==
    /\ c.res.item \in Range(Unseen(PoolOf(c), log))
    /\ EligibleUnseen(c) # {} => c.res.item \in EligibleUnseen(c)

\* C19: in the coverage phase, whenever the cursor scan yields no candidate
\* while the pool has an unseen item, the selected item is an unseen one:
\* one outside the cooling set, or, when every unseen item is in the
\* cooling set, any unseen item; a seen item is not returned.
C19_ExhaustionPicksUnseen == CoverageExhausted(call) => UnseenReturned(call)

\* the same on the Q-code and alphabet routes
C19_SmallPools ==
    (CoverageExhausted(call) /\ call.route # "questions") => UnseenReturned(call)

\* the questions route with its only unseen question in the cooling set
\* returns a question that was answered before
C19_SeenReturned ==
    /\ CoverageExhausted(call) /\ call.route = "questions"
    /\ call.res.item # Null
    /\ call.res.item \in SeenIds(log)

\* the Q-code route with every unseen Q code in the cooling set returns an
\* unseen one
C19_SmallPoolIgnoresCooling ==
    /\ CoverageExhausted(call) /\ call.route = "q-codes"
    /\ EligibleUnseen(call) = {}
    /\ call.res.item \in Range(Unseen(PoolOf(call), log))

\* C20: when a coverage-phase request supplies no cursor, the shuffledOrder
\* the server generates is a permutation of the pool's current unseen set:
\* every unseen pool item exactly once, no item that has an attempt
\* record; and one is generated whenever an unseen item is outside the
\* cooling set.
C20_FreshOrderIsUnseen ==
    (Answered(call) /\ call.forcePhase \in {Null, "coverage"} /\ call.shuffledOrder = <<>>) =>
        /\ call.res.shuffledOrder # <<>> =>
               /\ NoDuplicates(call.res.shuffledOrder)
               /\ Range(call.res.shuffledOrder) = Range(Unseen(PoolOf(call), log))
               /\ Range(call.res.shuffledOrder) \cap SeenIds(log) = {}
               /\ call.res.currentIndex \in 1..Len(call.res.shuffledOrder)
        /\ EligibleUnseen(call) # {} => call.res.shuffledOrder # <<>>

\* two questions, one answered before: the generated order holds the other
\* one alone
C20_Witness ==
    /\ Answered(call) /\ call.route = "questions" /\ call.pool = Null
    /\ call.shuffledOrder = <<>>
    /\ "Q1" \in SeenIds(log)
    /\ call.res.shuffledOrder = <<"Q2">>

\* a call whose phase is coverage: forced, or detected (an unseen item)
InCoverage(c) ==
    /\ Answered(c)
    /\ \/ c.forcePhase = "coverage"
       \/ c.forcePhase = Null /\ Len(Unseen(PoolOf(c), log)) > 0

\* the order a call scans: the supplied one, else the one it generated and
\* returned; and the index the scan starts from
ScannedOrder(c) == IF c.shuffledOrder # <<>> THEN c.shuffledOrder ELSE c.res.shuffledOrder
ScanFrom(c) == IF c.shuffledOrder # <<>> THEN c.currentIndex ELSE 0

\* the 1-based positions of an order, from a 0-based index on, that hold a
\* pool item outside the cooling set
Candidates(c, order, from) ==
    {p \in (from + 1)..Len(order) :
        order[p] \in Range(PoolOf(c)) /\ order[p] \notin CoolingSet(c)}

\* C21: when the coverage scan selects an item, that item is the first id
\* of shuffledOrder at a position >= the supplied currentIndex that is in
\* the pool and not in the cooling set; the returned currentIndex is that
\* position + 1, greater than the supplied one, and the returned
\* shuffledOrder is the supplied order unchanged.  The scan selects
\* whenever the supplied order holds such an id.
C21_ScanSelectsFirst ==
    InCoverage(call) =>
        /\ call.res.shuffledOrder # <<>> =>
               LET order == ScannedOrder(call)
                   candidates == Candidates(call, order, ScanFrom(call))
               IN  /\ call.res.shuffledOrder = order
                   /\ candidates # {}
                   /\ \E p \in candidates :
                         /\ \A q \in candidates : p <= q
                         /\ call.res.item = order[p]
                         /\ call.res.currentIndex = p
                         /\ call.res.currentIndex > ScanFrom(call)
        /\ (call.shuffledOrder # <<>>
              /\ Candidates(call, call.shuffledOrder, call.currentIndex) # {})
               => call.res.shuffledOrder # <<>>

\* the supplied order Q2, Q1 with Q2 in the cooling set: Q1 is selected and
\* the index advances from 0 to 2
C21_Witness ==
    /\ InCoverage(call) /\ call.route = "questions"
    /\ call.shuffledOrder = <<"Q2", "Q1">> /\ call.currentIndex = 0
    /\ "Q2" \in CoolingSet(call)
    /\ call.res.item = "Q1" /\ call.res.currentIndex = 2
    /\ call.res.shuffledOrder = <<"Q2", "Q1">>

\* C22: every coverage-phase response that selects an item carries both a
\* shuffledOrder and a currentIndex advanced past the index the scan
\* started from, also when the item comes from the exhaustion fallback.
C22_CoverageCarriesCursor ==
    (Answered(call) /\ call.res.phase = "coverage" /\ call.res.item # Null) =>
        /\ call.res.shuffledOrder # <<>>
        /\ call.res.currentIndex > ScanFrom(call)

\* the exhaustion fallback of a coverage response: an item, no cursor
C22_FallbackWithoutCursor ==
    /\ Answered(call) /\ call.res.phase = "coverage" /\ call.res.item # Null
    /\ call.shuffledOrder # <<>> /\ call.currentIndex >= Len(call.shuffledOrder)
    /\ call.res.item \in Range(Unseen(PoolOf(call), log))
    /\ call.res.shuffledOrder = <<>> /\ call.res.currentIndex = -1

\* the hinted items that are less than a cooling period old or among the
\* coolingCount hints with the greatest answeredAt
HintedCooling(c) == {c.recent[i].questionId : i \in {k \in 1..Len(c.recent) : StillCooling(c, k)}}

\* C23: the exclusion set a next-item request applies is exactly the union
\* of the hinted items whose answeredAt is less than coolingPeriodMs before
\* now and the coolingCount hinted items with the greatest answeredAt; no
\* other item is excluded from selection.
C23_ExclusionIsCoolingUnion ==
    call.kind = "next" => CoolingSet(call) = HintedCooling(call)

\* the same for the requests that carry no exclude parameter
C23_WithoutExcludeParam ==
    (call.kind = "next" /\ call.exclude = {}) => CoolingSet(call) = HintedCooling(call)

\* a Q-code page request one cooling period after the answer on QC-1, with
\* enough later answers: QC-1 is outside both cooling rules and excluded
C23_ExcludedByParameter ==
    /\ call.kind = "next" /\ call.route = "q-codes"
    /\ "QC-1" \in call.exclude
    /\ "QC-1" \in CoolingSet(call) /\ "QC-1" \notin HintedCooling(call)

\* the pool of the page
PagePool(c) == PoolIds(c.route, c.pool)

\* every item of the pool has been presented, none is unseen, and the last
\* response reported a phase other than coverage
CoverageCompleted ==
    /\ call.kind = "page"
    /\ Range(PagePool(call)) \subseteq call.shown
    /\ Unseen(PagePool(call), log) = <<>>
    /\ call.phase # "coverage"

\* C30: if the learner answers every item that is presented and the page
\* carries the cursor and the recency list forward, every item of the pool
\* is eventually presented and the phase eventually stops being coverage;
\* no item stays unseen forever.
C30_CoverageTerminates == <>CoverageCompleted

\* the same on the study page and on the Q-code page
C30_StudyAndQCodePages == (call.route \in {"questions", "q-codes"}) => <>CoverageCompleted

\* the alphabet page after the first self-assessment: the answer is
\* rejected, nothing is recorded, the page loads no further letter
C30_AlphabetPageStuck ==
    /\ call.kind = "page" /\ call.route = "alphabet" /\ call.stage = "failed"
    /\ Cardinality(call.shown) = 1
    /\ Unseen(PagePool(call), log) = PagePool(call)
    /\ call.phase = "coverage"
    /\ ~ ENABLED NextLearner

\* the study page after both questions of the bank were presented and
\* answered: the third response reports another phase
C30_StudyPageCompleted ==
    /\ CoverageCompleted /\ call.route = "questions" /\ call.pool = Null
    /\ call.shown = {"Q1", "Q2"} /\ Len(call.recent) = 2 /\ call.stage = "done"

\* a step does not add an unseen item to any pool, and does not take the
\* phase of a pool back to coverage
UnseenShrinks ==
    \/ log' = log /\ questionsCache' = questionsCache
    \/ LET before == StatsMaps(log)
           after == StatsMaps(log')
       IN  \A ids \in Pools :
               /\ Range(Unseen(ids, log')) \subseteq Range(Unseen(ids, log))
               /\ (Len(ids) > 0 /\ \E b \in before : determinePhase(ids, b) # "coverage")
                      => \A a \in after : determinePhase(ids, a) # "coverage"

\* C31: for a fixed pool, the set of unseen items never grows over any
\* sequence of operations, so once the phase computed for that pool is not
\* coverage it is never coverage again.
C31_UnseenNeverGrows == [][UnseenShrinks]_vars

\* a second recorded answer on the one question of a section that has left
\* coverage with the first
C31_Witness ==
    /\ call.kind = "attempt" /\ call.status = 200 /\ call.questionId = "Q1"
    /\ Len(log) = 2 /\ log[1].question_id = "Q1" /\ log[2].question_id = "Q1"
    /\ Unseen(PoolIds("questions", "S1"), log) = <<>>
    /\ \A statsMap \in StatsMaps(log) :
           determinePhase(PoolIds("questions", "S1"), statsMap) # "coverage"
    /\ Unseen(PoolIds("questions", Null), log) = <<"Q2">>

\* C33: whenever a next-item response carries a non-null item, that item
\* belongs to the requested pool (the section-filtered catalog, the Q-code
\* list or the selected alphabet), also when the supplied shuffledOrder or
\* the cooling hints contain ids that are not in the pool.
C33_ItemOfRequestedPool ==
    (Answered(call) /\ call.res.item # Null) => call.res.item \in Range(PoolOf(call))

\* a request on section S1 whose order starts with Q2, a question of
\* another section: Q2 is skipped and Q1 returned with index 2
C33_Witness ==
    /\ Answered(call) /\ call.route = "questions" /\ call.pool = "S1"
    /\ call.shuffledOrder = <<"Q2", "Q1">> /\ "Q2" \notin CoolingSet(call)
    /\ call.res.item = "Q1" /\ call.res.currentIndex = 2

\* a request on the Polish alphabet whose order holds a NATO letter only
C33_ForeignOrderOnly ==
    /\ Answered(call) /\ call.route = "alphabet" /\ call.pool = "polish"
    /\ call.shuffledOrder = <<"AL-NATO-A">>
    /\ call.res.item \in Range(PoolOf(call)) /\ call.res.shuffledOrder = <<>>

\* C34: in the drilling phase an item that is in the cooling set is
\* returned only if every non-mastered item of the pool is in the cooling
\* set; as long as one non-mastered item is outside the cooling set, the
\* selected item is outside it too.
C34_DrillingRespectsCooling ==
    (/\ Answered(call) /\ call.res.phase = "drilling"
     /\ call.res.item # Null /\ call.res.item \in CoolingSet(call))
        => \A statsMap \in StatsMaps(log) :
               Range(NonMastered(PoolOf(call), statsMap)) \subseteq CoolingSet(call)

\* both Q codes answered, QC-1 cooling and QC-2 not: QC-2 is returned
C34_Witness ==
    /\ Answered(call) /\ call.route = "q-codes" /\ call.res.phase = "drilling"
    /\ "QC-1" \in CoolingSet(call) /\ "QC-2" \notin CoolingSet(call)
    /\ \A statsMap \in StatsMaps(log) :
           Range(NonMastered(PoolOf(call), statsMap)) = {"QC-1", "QC-2"}
    /\ call.res.item = "QC-2"

\* both Q codes answered and cooling: one of them is returned all the same
C34_AllCooling ==
    /\ Answered(call) /\ call.route = "q-codes" /\ call.res.phase = "drilling"
    /\ {"QC-1", "QC-2"} \subseteq CoolingSet(call)
    /\ call.res.item \in {"QC-1", "QC-2"}

\* the pool items of a call that the statistics put at a level
AtLevel(c, statsMap, level) == {id \in Range(PoolOf(c)) : LevelOf(id, statsMap) = level}

C36_MasteredAndUnseen ==
    /\ Answered(call) /\ call.route = "questions" /\ call.pool = Null
    /\ call.res.stats.total = 2 /\ call.res.stats.mastered = 1
    /\ call.res.stats.unseen = 1 /\ call.res.stats.seenCount = 1

====
